---------------------------- MODULE Spec2Model ----------------------------
(***************************************************************************)
(* Model of the SAML 2.0 service-provider flow of the UCSC portal:         *)
(*   libs/auth/src/types/saml.types.ts      mapAffiliationToRoles          *)
(*   libs/auth/src/services/saml.service.ts getSAMLConfig,                 *)
(*        createSAMLStrategy, validateSAMLResponse, parseSAMLProfile,      *)
(*        createSAMLUser, generateAuthUrl                                  *)
(*   apps/portal/src/server/auth/saml.ts    processSAMLCallback            *)
(*   routes/api/auth/saml/login             GET handler                    *)
(*   routes/api/auth/saml/callback          POST handler                   *)
(*   routes/auth/saml/callback              SAMLCallbackPage               *)
(*   libs/auth/src/components/ProtectedRoute createProtectedBeforeLoad     *)
(*   libs/auth/src/context/AuthProvider     AuthProvider                   *)
(*                                                                         *)
(* JavaScript strings are sequences of one-character strings, so that      *)
(* toLowerCase, includes, split and join are computed character by         *)
(* character.  undefined and null are the one-element sequences            *)
(* <<"undefined">> and <<"null">>, which no character sequence equals.     *)
(***************************************************************************)
EXTENDS Integers, Sequences, FiniteSets, TLC

VARIABLES
    env,      \* process.env as read by getSAMLConfig
    now,      \* the clock the SAML library reads while validating
    request,  \* the call or HTTP request in flight (op = "none": idle)
    outcome,  \* what the handler of `request` produced (kind = "none": not yet)
    browser,  \* the user's browser during a login attempt
    authnRequests, \* the IDs of the AuthnRequests sent to the IdP so far
    invocations, \* concurrent invocations of validateSAMLResponse
    authProvider,\* the AuthProvider mounted in the browser, with localStorage
    keyboardNav, \* a list that uses useKeyboardNav
    callbackPage, \* the mounted callback page (SAML or OIDC), if any
    hookAuth, \* the AuthProvider of hooks/useAuth.tsx, with its localStorage entries
    oidcAuth  \* the AuthProvider built on oidc-client-ts, with the UserManager's store

vars == <<env, now, request, outcome, browser, authnRequests, invocations, authProvider,
         keyboardNav,
         callbackPage,
         hookAuth,
         oidcAuth>>

-----------------------------------------------------------------------------
(* Bounds of the model.                                                    *)

\* Longest eduPersonAffiliation array the IdP releases.
MaxAffiliations == 3

\* The clock and the assertion's NotBefore / NotOnOrAfter range over 0..MaxTime.
MaxTime == 2

\* AuthnRequests issued in one behaviour.
MaxRequests == 1

-----------------------------------------------------------------------------
(* JavaScript values.                                                      *)

Undefined == <<"undefined">>
Null      == <<"null">>
EmptyStr  == <<>>

\* Boolean(s) of a string | undefined | null value.
Truthy(s) == s # Undefined /\ s # Null /\ s # EmptyStr

\* a || b on string | undefined values.
Or2(a, b) == IF Truthy(a) THEN a ELSE b

UpperAlpha ==
    <<"A","B","C","D","E","F","G","H","I","J","K","L","M",
      "N","O","P","Q","R","S","T","U","V","W","X","Y","Z">>
LowerAlpha ==
    <<"a","b","c","d","e","f","g","h","i","j","k","l","m",
      "n","o","p","q","r","s","t","u","v","w","x","y","z">>

\* String.prototype.toLowerCase, one character.
ToLowerChar(c) ==
    IF \E i \in 1..Len(UpperAlpha) : UpperAlpha[i] = c
    THEN LowerAlpha[CHOOSE i \in 1..Len(UpperAlpha) : UpperAlpha[i] = c]
    ELSE c

\* String.prototype.toLowerCase.
ToLowerCase(s) == [i \in 1..Len(s) |-> ToLowerChar(s[i])]

\* String.prototype.includes: p occurs in s as a contiguous substring.
Includes(s, p) ==
    \E i \in 0..(Len(s) - Len(p)) : SubSeq(s, i + 1, i + Len(p)) = p

\* [...new Set(xs)]: the first occurrence of each element, in order.
RECURSIVE SetSpread(_)
SetSpread(xs) ==
    IF xs = <<>> THEN <<>>
    ELSE LET init == SetSpread(SubSeq(xs, 1, Len(xs) - 1))
             last == xs[Len(xs)]
         IN  IF \E i \in 1..Len(init) : init[i] = last
             THEN init
             ELSE Append(init, last)

-----------------------------------------------------------------------------
(* encodeURIComponent and decodeURIComponent, character by character.      *)
(* Ascii[i] is the character with code 31 + i.  An opaque token of a       *)
(* sequence is no character of the table; it holds no reserved character   *)
(* and passes through both functions as it is.  The grave accent, which   *)
(* no text of the model holds, is written (grave).                         *)

Ascii ==
    <<" ", "!", "\"", "#", "$", "%", "&", "'", "(", ")", "*", "+",
       ",", "-", ".", "/", "0", "1", "2", "3", "4", "5", "6", "7",
       "8", "9", ":", ";", "<", "=", ">", "?", "@", "A", "B", "C",
       "D", "E", "F", "G", "H", "I", "J", "K", "L", "M", "N", "O",
       "P", "Q", "R", "S", "T", "U", "V", "W", "X", "Y", "Z", "[",
       "\\", "]", "^", "_", "(grave)", "a", "b", "c", "d", "e", "f", "g",
       "h", "i", "j", "k", "l", "m", "n", "o", "p", "q", "r", "s",
       "t", "u", "v", "w", "x", "y", "z", "{", "|", "}", "~" >>

AsciiChars == { Ascii[i] : i \in 1..Len(Ascii) }

CharCode(c) == 31 + (CHOOSE i \in 1..Len(Ascii) : Ascii[i] = c)

HexDigits == <<"0","1","2","3","4","5","6","7","8","9","A","B","C","D","E","F">>

HexChars == { HexDigits[i] : i \in 1..Len(HexDigits) } \cup {"a","b","c","d","e","f"}

HexVal(h) ==
    (CHOOSE i \in 1..Len(HexDigits) : ToLowerChar(HexDigits[i]) = ToLowerChar(h)) - 1

\* The characters encodeURIComponent leaves alone: A-Z a-z 0-9 - _ . ! ~ * ' ( )
Unreserved ==
    { UpperAlpha[i] : i \in 1..Len(UpperAlpha) }
    \cup { LowerAlpha[i] : i \in 1..Len(LowerAlpha) }
    \cup {"0","1","2","3","4","5","6","7","8","9"}
    \cup {"-", "_", ".", "!", "~", "*", "'", "(", ")"}

EncodeChar(c) ==
    IF c \in Unreserved \/ c \notin AsciiChars
    THEN <<c>>
    ELSE <<"%", HexDigits[(CharCode(c) \div 16) + 1],
                HexDigits[(CharCode(c) % 16) + 1]>>

RECURSIVE encodeURIComponent(_)
encodeURIComponent(s) ==
    IF s = <<>> THEN <<>>
    ELSE EncodeChar(Head(s)) \o encodeURIComponent(Tail(s))

\* decodeURIComponent returns the decoded text or throws URIError on a '%'
\* that does not start an escape.  The texts of the model hold escapes of
\* printable ASCII only; any other byte is kept as one opaque character.
URIError == [ok |-> FALSE, value |-> <<>>]

RECURSIVE decodeURIComponent(_)
decodeURIComponent(s) ==
    IF s = <<>> THEN [ok |-> TRUE, value |-> <<>>]
    ELSE IF Head(s) # "%"
    THEN LET rest == decodeURIComponent(Tail(s))
         IN  IF rest.ok THEN [ok |-> TRUE, value |-> <<Head(s)>> \o rest.value]
             ELSE URIError
    ELSE IF Len(s) < 3 \/ s[2] \notin HexChars \/ s[3] \notin HexChars
    THEN URIError
    ELSE LET n == 16 * HexVal(s[2]) + HexVal(s[3])
             c == IF n \in 32..126 THEN Ascii[n - 31] ELSE "(byte)"
             rest == decodeURIComponent(SubSeq(s, 4, Len(s)))
         IN  IF rest.ok THEN [ok |-> TRUE, value |-> <<c>> \o rest.value]
             ELSE URIError

-----------------------------------------------------------------------------
(* String literals of the source and of the IdP's attribute release.       *)

s_faculty       == <<"f","a","c","u","l","t","y">>
s_instructor    == <<"i","n","s","t","r","u","c","t","o","r">>
s_staff         == <<"s","t","a","f","f">>
s_admin         == <<"a","d","m","i","n">>
s_administrator == <<"a","d","m","i","n","i","s","t","r","a","t","o","r">>
s_student       == <<"s","t","u","d","e","n","t">>
s_member        == <<"m","e","m","b","e","r">>
s_employee      == <<"e","m","p","l","o","y","e","e">>
s_Admin         == <<"A","d","m","i","n">>
s_INSTRUCTOR    == <<"I","N","S","T","R","U","C","T","O","R">>
s_student_staff == <<"s","t","u","d","e","n","t","-","s","t","a","f","f">>

\* Affiliation strings an IdP may release: plain values, other casing, a
\* value holding two keywords, values holding none, and the empty string.
AffiliationStrings ==
    { s_faculty, s_staff, s_student, s_member, s_employee,
      s_Admin, s_INSTRUCTOR, s_student_staff, EmptyStr }

RECURSIVE SeqsUpTo(_, _)
SeqsUpTo(S, n) ==
    IF n = 0 THEN { <<>> }
    ELSE LET shorter == SeqsUpTo(S, n - 1)
         IN  shorter \cup { Append(q, x) : q \in shorter, x \in S }

\* string | string[] | undefined, tagged by kind.
AffUndefined  == [kind |-> "undefined", str |-> Undefined, items |-> <<>>]
AffString(s)  == [kind |-> "string", str |-> s, items |-> <<>>]
AffArray(xs)  == [kind |-> "array", str |-> Undefined, items |-> xs]

AffiliationInputs ==
    {AffUndefined}
        \cup { AffString(s) : s \in AffiliationStrings }
        \cup { AffArray(xs) : xs \in SeqsUpTo(AffiliationStrings, MaxAffiliations) }

Roles == {"student", "instructor", "admin", "staff"}

-----------------------------------------------------------------------------
(* saml.types.ts: mapAffiliationToRoles.                                   *)

\* The body of the for loop: the roles one affiliation pushes.
RolesPushed_StudentBeforeStaff(affiliation) ==
    LET normalized == ToLowerCase(affiliation)
    IN  IF Includes(normalized, s_faculty) \/ Includes(normalized, s_instructor)
        THEN <<"instructor">>
        ELSE IF Includes(normalized, s_student)
        THEN <<"student">>
        ELSE IF Includes(normalized, s_staff)
        THEN <<"staff">>
        ELSE IF Includes(normalized, s_admin) \/ Includes(normalized, s_administrator)
        THEN <<"admin">>
        ELSE <<>>

RolesPushed(affiliation) ==
    LET normalized == ToLowerCase(affiliation)
    IN  IF Includes(normalized, s_faculty) \/ Includes(normalized, s_instructor)
        THEN <<"instructor">>
        ELSE IF Includes(normalized, s_staff)
        THEN <<"staff">>
        ELSE IF Includes(normalized, s_admin) \/ Includes(normalized, s_administrator)
        THEN <<"admin">>
        ELSE IF Includes(normalized, s_student)
        THEN <<"student">>
        ELSE <<>>

\* The for loop over affiliationList: roles after the last iteration.
RECURSIVE ScanAffiliations(_)
ScanAffiliations(affiliationList) ==
    IF affiliationList = <<>> THEN <<>>
    ELSE ScanAffiliations(SubSeq(affiliationList, 1, Len(affiliationList) - 1))
            \o RolesPushed(affiliationList[Len(affiliationList)])

\* "Ensure at least one role".
EnsureRole_Omitted(roles) == roles

EnsureRole(roles) == IF Len(roles) = 0 THEN <<"student">> ELSE roles

\* "Remove duplicates".
RemoveDuplicates_KeepLast(roles) ==
    LET RECURSIVE KeepLast(_)
        KeepLast(xs) ==
            IF xs = <<>> THEN <<>>
            ELSE LET rest == KeepLast(Tail(xs))
                 IN  IF \E i \in 1..Len(rest) : rest[i] = Head(xs)
                     THEN rest
                     ELSE <<Head(xs)>> \o rest
    IN  KeepLast(roles)

RemoveDuplicates(roles) == SetSpread(roles)

mapAffiliationToRoles(affiliations) ==
    IF affiliations.kind = "undefined"
          \/ (affiliations.kind = "string" /\ ~Truthy(affiliations.str))
    THEN <<"student">>
    ELSE LET affiliationList ==
                 IF affiliations.kind = "array"
                 THEN affiliations.items
                 ELSE <<affiliations.str>>
         IN  RemoveDuplicates(EnsureRole(ScanAffiliations(affiliationList)))

-----------------------------------------------------------------------------
(* saml.service.ts: configuration.  A string whose characters the code     *)
(* never inspects (a URL) is one opaque token of the sequence; a           *)
(* certificate is kept character by character, as the replace calls of     *)
(* createSAMLStrategy scan it.                                             *)

url_entryPoint  == <<"http://localhost:8080/simplesaml/saml2/idp/SSOService.php">>
url_issuer      == <<"http://localhost:3000">>
url_callbackUrl == <<"http://localhost:3000/api/auth/saml/callback">>
url_otherSP     == <<"https://other-sp.example.edu">>

\* -----BEGIN CERTIFICATE-----
pem_begin ==
    << "-", "-", "-", "-", "-", "B", "E", "G", "I", "N", " ", "C", "E", 
       "R", "T", "I", "F", "I", "C", "A", "T", "E", "-", "-", "-", "-", 
       "-" >>
\* -----END CERTIFICATE-----
pem_end ==
    << "-", "-", "-", "-", "-", "E", "N", "D", " ", "C", "E", "R", "T", 
       "I", "F", "I", "C", "A", "T", "E", "-", "-", "-", "-", "-" >>

cert_raw == <<"M", "I", "I", "B">>
cert_pem == pem_begin \o <<"\n">> \o cert_raw \o <<"\n">> \o pem_end \o <<"\n">>

DEFAULT_CONFIG ==
    [ entryPoint              |-> url_entryPoint,
      issuer                  |-> url_issuer,
      callbackUrl             |-> url_callbackUrl,
      cert                    |-> EmptyStr,
      wantAssertionsSigned    |-> FALSE,
      wantAuthnResponseSigned |-> FALSE ]

\* The environments a deployment starts with.
Envs ==
    [ NODE_ENV          : {"production", "development"},
      SAML_ENTRY_POINT  : {Undefined},
      SAML_ISSUER       : {Undefined},
      SAML_CALLBACK_URL : {Undefined},
      SAML_IDP_CERT     : {Undefined, cert_pem} ]

getSAMLConfig_FlagsFromDefault(e) ==
    [ entryPoint              |-> Or2(e.SAML_ENTRY_POINT, DEFAULT_CONFIG.entryPoint),
      issuer                  |-> Or2(e.SAML_ISSUER, DEFAULT_CONFIG.issuer),
      callbackUrl             |-> Or2(e.SAML_CALLBACK_URL, DEFAULT_CONFIG.callbackUrl),
      cert                    |-> Or2(e.SAML_IDP_CERT, DEFAULT_CONFIG.cert),
      wantAssertionsSigned    |-> DEFAULT_CONFIG.wantAssertionsSigned,
      wantAuthnResponseSigned |-> DEFAULT_CONFIG.wantAuthnResponseSigned ]

getSAMLConfig(e) ==
    [ entryPoint              |-> Or2(e.SAML_ENTRY_POINT, DEFAULT_CONFIG.entryPoint),
      issuer                  |-> Or2(e.SAML_ISSUER, DEFAULT_CONFIG.issuer),
      callbackUrl             |-> Or2(e.SAML_CALLBACK_URL, DEFAULT_CONFIG.callbackUrl),
      cert                    |-> Or2(e.SAML_IDP_CERT, DEFAULT_CONFIG.cert),
      wantAssertionsSigned    |-> (e.NODE_ENV = "production"),
      wantAuthnResponseSigned |-> (e.NODE_ENV = "production") ]

\* s.replace(/[...]/g, ''): every character of the class removed.
RECURSIVE RemoveAll(_, _)
RemoveAll(s, toks) ==
    IF s = <<>> THEN <<>>
    ELSE IF Head(s) \in toks
         THEN RemoveAll(Tail(s), toks)
         ELSE <<Head(s)>> \o RemoveAll(Tail(s), toks)

\* s starts with pat.
StartsWith(s, pat) ==
    /\ Len(s) >= Len(pat)
    /\ SubSeq(s, 1, Len(pat)) = pat

\* s.replace(/pat/g, '') for a literal pattern: the string is scanned from
\* the left, every match is dropped and the scan resumes after the match;
\* what the removals leave behind is not scanned again.
RECURSIVE ReplaceAll(_, _)
ReplaceAll(s, pat) ==
    IF s = <<>> THEN <<>>
    ELSE IF StartsWith(s, pat)
         THEN ReplaceAll(SubSeq(s, Len(pat) + 1, Len(s)), pat)
         ELSE <<Head(s)>> \o ReplaceAll(Tail(s), pat)

Whitespace == {"\r", "\n", " ", "\t"}

\* The chain of replace calls on the configured certificate, in another
\* order: whitespace first, then the armor lines.
NormalizeCert_WhitespaceFirst(cert) ==
    ReplaceAll(ReplaceAll(RemoveAll(Or2(cert, EmptyStr), Whitespace),
                          pem_begin), pem_end)

\* The chain of replace calls on the configured certificate.
NormalizeCert(cert) ==
    RemoveAll(ReplaceAll(ReplaceAll(Or2(cert, EmptyStr), pem_begin), pem_end),
              Whitespace)

\* The options createSAMLStrategy hands to `new SAML(...)`.
createSAMLStrategy_ValidateInResponseTo(e) ==
    LET samlConfig == getSAMLConfig(e)
        cert == NormalizeCert(samlConfig.cert)
    IN  [ entryPoint                   |-> samlConfig.entryPoint,
          issuer                       |-> samlConfig.issuer,
          callbackUrl                  |-> samlConfig.callbackUrl,
          idpCert                      |-> cert,
          wantAssertionsSigned         |-> samlConfig.wantAssertionsSigned,
          wantAuthnResponseSigned      |-> samlConfig.wantAuthnResponseSigned,
          validateInResponseTo         |-> "always",
          disableRequestedAuthnContext |-> TRUE,
          \* a new instance has remembered no request
          requestIds                   |-> {} ]

createSAMLStrategy(e) ==
    LET samlConfig == getSAMLConfig(e)
        cert == NormalizeCert(samlConfig.cert)
    IN  [ entryPoint                   |-> samlConfig.entryPoint,
          issuer                       |-> samlConfig.issuer,
          callbackUrl                  |-> samlConfig.callbackUrl,
          idpCert                      |-> cert,
          wantAssertionsSigned         |-> samlConfig.wantAssertionsSigned,
          wantAuthnResponseSigned      |-> samlConfig.wantAuthnResponseSigned,
          validateInResponseTo         |-> "never",
          disableRequestedAuthnContext |-> TRUE,
          \* a new instance has remembered no request
          requestIds                   |-> {} ]

-----------------------------------------------------------------------------
(* The raw profile the SAML library extracts from an assertion.            *)

c_jdoe       == <<"j","d","o","e">>
c_jdoe_mail  == <<"j","d","o","e","@","u","c","s","c",".","e","d","u">>
c_Jane       == <<"J","a","n","e">>
c_Doe        == <<"D","o","e">>
c_Jane_Q == <<"J","a","n","e"," ","Q",".">>
c_space      == <<" ">>
c_at         == "@"
c_ucsc_edu   == <<"@","u","c","s","c",".","e","d","u">>
c_undefined  == <<"u","n","d","e","f","i","n","e","d">>
c_session    == <<"_","s","1">>

\* An attribute bag with no attribute and no NameID.
BlankProfile ==
    [ nameID                   |-> Undefined,
      nameIDFormat             |-> Undefined,
      sessionIndex             |-> Undefined,
      email                    |-> Undefined,
      oid_mail                 |-> Undefined,
      mail                     |-> Undefined,
      displayName              |-> Undefined,
      oid_displayName          |-> Undefined,
      cn                       |-> Undefined,
      firstName                |-> Undefined,
      givenName                |-> Undefined,
      oid_givenName            |-> Undefined,
      lastName                 |-> Undefined,
      sn                       |-> Undefined,
      oid_sn                   |-> Undefined,
      uid                      |-> Undefined,
      oid_uid                  |-> Undefined,
      eduPersonAffiliation     |-> AffUndefined,
      oid_eduPersonAffiliation |-> AffUndefined ]

\* The profiles the IdP releases in this model: a full release, NameID
\* alone, nothing at all, an empty NameID, OID-named attributes without a
\* NameID, and a release with a display name and a single affiliation.
JaneDoeProfile ==
    [BlankProfile EXCEPT !.nameID = c_jdoe_mail, !.sessionIndex = c_session,
                         !.uid = c_jdoe, !.mail = c_jdoe_mail,
                         !.givenName = c_Jane, !.sn = c_Doe,
                         !.eduPersonAffiliation = AffArray(<<s_member, s_student>>)]

RawProfiles ==
    { JaneDoeProfile,
      [BlankProfile EXCEPT !.nameID = c_jdoe_mail],
      BlankProfile,
      [BlankProfile EXCEPT !.nameID = EmptyStr, !.givenName = c_Jane],
      [BlankProfile EXCEPT !.oid_uid = c_jdoe, !.oid_mail = c_jdoe_mail,
                           !.oid_eduPersonAffiliation = AffString(s_faculty)],
      [BlankProfile EXCEPT !.nameID = c_jdoe, !.displayName = c_Jane_Q,
                           !.email = c_jdoe_mail,
                           !.eduPersonAffiliation = AffString(s_staff)] }

\* result.profile === null (the library's answer to a logout response).
NullProfile == [null |-> TRUE]

-----------------------------------------------------------------------------
(* The SAMLResponse form field: absent (null), empty, or the base64 text   *)
(* of an IdP response, described by what the library finds in it.          *)

\* The ID of an AuthnRequest is its number in issue order; a response that
\* answers no request carries NoRequestId.
NoRequestId == 0
RequestIds  == 1..MaxRequests

SamlResponseNull ==
    [ kind |-> "null", decodable |-> FALSE, signature |-> "missing",
      notBefore |-> 0, notOnOrAfter |-> 0, audience |-> Undefined,
      inResponseTo |-> NoRequestId, profile |-> NullProfile ]

SamlResponseEmpty == [SamlResponseNull EXCEPT !.kind = "empty"]

SamlResponseGarbage == [SamlResponseNull EXCEPT !.kind = "blob"]

IdPResponses ==
    [ kind         : {"blob"},
      decodable    : {TRUE},
      signature    : {"valid", "invalid", "missing"},
      notBefore    : 0..MaxTime,
      notOnOrAfter : 0..MaxTime,
      audience     : {url_issuer, url_otherSP},
      inResponseTo : {NoRequestId},
      profile      : RawProfiles \cup {NullProfile} ]

\* What a caller can pass as samlResponse: a non-empty string.
SamlResponseStrings == IdPResponses \cup {SamlResponseGarbage}

\* What formData.get('SAMLResponse') can be.
SamlResponseFields == SamlResponseStrings \cup {SamlResponseNull, SamlResponseEmpty}

\* !samlResponse
Falsy(samlResponse) == samlResponse.kind \in {"null", "empty"}

-----------------------------------------------------------------------------
(* The SAML library (@node-saml/passport-saml), as the validator's         *)
(* description of it: decode, signature, time window, audience, profile.   *)
(* `lib` is the fault of the library in this call, if any.                 *)

LibFaults == {"ok", "ctorThrows", "validateThrows", "noResult"}

LibThrew(msg)   == [threw |-> TRUE, message |-> msg, result |-> [kind |-> "nothing", profile |-> NullProfile]]
LibResult(kind, profile) == [threw |-> FALSE, message |-> "", result |-> [kind |-> kind, profile |-> profile]]

\* Signature enforcement of a strategy.
Enforced(strategy) ==
    strategy.wantAssertionsSigned \/ strategy.wantAuthnResponseSigned

validatePostResponseAsync(strategy, clock, samlResponse, lib) ==
    IF lib = "validateThrows"
    THEN LibThrew("SAML library fault")
    ELSE IF samlResponse.kind # "blob" \/ ~samlResponse.decodable
    THEN LibThrew("Not a valid SAML response")
    ELSE IF Enforced(strategy) /\ samlResponse.signature # "valid"
    THEN LibThrew("Invalid signature")
    ELSE IF /\ strategy.validateInResponseTo = "always"
            /\ samlResponse.inResponseTo \notin strategy.requestIds
    THEN LibThrew("InResponseTo is not valid")
    ELSE IF clock < samlResponse.notBefore
    THEN LibThrew("SAML assertion not yet valid")
    ELSE IF clock >= samlResponse.notOnOrAfter
    THEN LibThrew("SAML assertion expired")
    ELSE IF samlResponse.audience # strategy.issuer
    THEN LibThrew("SAML assertion audience mismatch")
    ELSE IF lib = "noResult"
    THEN LibResult("nothing", NullProfile)
    ELSE LibResult("result", samlResponse.profile)

-----------------------------------------------------------------------------
(* saml.service.ts: parseSAMLProfile, createSAMLUser.                      *)

\* Boolean(a) of a string | string[] | undefined value.
AffTruthy(a) == a.kind = "array" \/ (a.kind = "string" /\ Truthy(a.str))

parseSAMLProfile_MailFirst(rawProfile) ==
    [ nameID       |-> rawProfile.nameID,
      nameIDFormat |-> rawProfile.nameIDFormat,
      sessionIndex |-> rawProfile.sessionIndex,
      email        |-> Or2(rawProfile.email, Or2(rawProfile.mail,
                           Or2(rawProfile.oid_mail, EmptyStr))),
      displayName  |-> Or2(rawProfile.displayName, Or2(rawProfile.oid_displayName,
                           Or2(rawProfile.cn, EmptyStr))),
      firstName    |-> Or2(rawProfile.firstName, Or2(rawProfile.givenName,
                           Or2(rawProfile.oid_givenName, EmptyStr))),
      lastName     |-> Or2(rawProfile.lastName, Or2(rawProfile.sn,
                           Or2(rawProfile.oid_sn, EmptyStr))),
      uid          |-> Or2(rawProfile.uid, Or2(rawProfile.oid_uid, EmptyStr)),
      eduPersonAffiliation |->
          IF AffTruthy(rawProfile.eduPersonAffiliation)
          THEN rawProfile.eduPersonAffiliation
          ELSE rawProfile.oid_eduPersonAffiliation,
      attributes   |-> rawProfile ]

parseSAMLProfile(rawProfile) ==
    [ nameID       |-> rawProfile.nameID,
      nameIDFormat |-> rawProfile.nameIDFormat,
      sessionIndex |-> rawProfile.sessionIndex,
      email        |-> Or2(rawProfile.email, Or2(rawProfile.oid_mail,
                           Or2(rawProfile.mail, EmptyStr))),
      displayName  |-> Or2(rawProfile.displayName, Or2(rawProfile.oid_displayName,
                           Or2(rawProfile.cn, EmptyStr))),
      firstName    |-> Or2(rawProfile.firstName, Or2(rawProfile.givenName,
                           Or2(rawProfile.oid_givenName, EmptyStr))),
      lastName     |-> Or2(rawProfile.lastName, Or2(rawProfile.sn,
                           Or2(rawProfile.oid_sn, EmptyStr))),
      uid          |-> Or2(rawProfile.uid, Or2(rawProfile.oid_uid, EmptyStr)),
      eduPersonAffiliation |->
          IF AffTruthy(rawProfile.eduPersonAffiliation)
          THEN rawProfile.eduPersonAffiliation
          ELSE rawProfile.oid_eduPersonAffiliation,
      attributes   |-> rawProfile ]

\* xs.filter(Boolean).join(' ')
RECURSIVE JoinTruthy(_)
JoinTruthy(xs) ==
    IF xs = <<>> THEN EmptyStr
    ELSE LET rest == JoinTruthy(Tail(xs))
         IN  IF ~Truthy(Head(xs)) THEN rest
             ELSE IF \A i \in 1..Len(Tail(xs)) : ~Truthy(Tail(xs)[i])
             THEN Head(xs)
             ELSE Head(xs) \o c_space \o rest

\* s.split('@')[0]: the text before the first '@', all of s if there is none.
RECURSIVE SplitAtFirst(_)
SplitAtFirst(s) ==
    IF s = <<>> \/ Head(s) = c_at THEN <<>>
    ELSE <<Head(s)>> \o SplitAtFirst(Tail(s))

\* `${v}`
TemplateString(v) == IF v = Undefined THEN c_undefined ELSE v

UserId_UidOnly(profile) == profile.uid

\* The id expression of createSAMLUser.
UserId(profile) == Or2(profile.uid, profile.nameID)

createSAMLUser_NameFromUserEmail(profile) ==
    LET email == Or2(profile.email, TemplateString(profile.nameID) \o c_ucsc_edu)
        name ==
            Or2(profile.displayName,
            Or2(JoinTruthy(<<profile.firstName, profile.lastName>>),
            Or2(SplitAtFirst(email),
                profile.nameID)))
    IN  [ id           |-> UserId(profile),
          email        |-> email,
          name         |-> name,
          roles        |-> mapAffiliationToRoles(profile.eduPersonAffiliation),
          samlProfile  |-> profile,
          sessionIndex |-> profile.sessionIndex ]

createSAMLUser_EmailBeforeNames(profile) ==
    LET name ==
            Or2(profile.displayName,
            Or2(IF profile.email \in {Undefined, Null}
                THEN Undefined
                ELSE SplitAtFirst(profile.email),
            Or2(JoinTruthy(<<profile.firstName, profile.lastName>>),
                profile.nameID)))
    IN  [ id           |-> UserId(profile),
          email        |-> Or2(profile.email,
                               TemplateString(profile.nameID) \o c_ucsc_edu),
          name         |-> name,
          roles        |-> mapAffiliationToRoles(profile.eduPersonAffiliation),
          samlProfile  |-> profile,
          sessionIndex |-> profile.sessionIndex ]

createSAMLUser(profile) ==
    LET name ==
            Or2(profile.displayName,
            Or2(JoinTruthy(<<profile.firstName, profile.lastName>>),
            Or2(IF profile.email \in {Undefined, Null}
                THEN Undefined
                ELSE SplitAtFirst(profile.email),
                profile.nameID)))
    IN  [ id           |-> UserId(profile),
          email        |-> Or2(profile.email,
                               TemplateString(profile.nameID) \o c_ucsc_edu),
          name         |-> name,
          roles        |-> mapAffiliationToRoles(profile.eduPersonAffiliation),
          samlProfile  |-> profile,
          sessionIndex |-> profile.sessionIndex ]

-----------------------------------------------------------------------------
(* What a function produced: the value it returned or the error it threw,  *)
(* with the functions it called on the way, in call order.                 *)

Returned(v, calls) == [kind |-> "returned", value |-> v, calls |-> calls]
Threw(msg, calls)  == [kind |-> "threw", value |-> msg, calls |-> calls]

\* SAMLAuthResult.  An absent error or errorCode is "undefined".
NoUser == <<>>
Failure(error, errorCode) ==
    [success |-> FALSE, user |-> NoUser, error |-> error, errorCode |-> errorCode]
Success(user) ==
    [success |-> TRUE, user |-> user, error |-> "undefined", errorCode |-> "undefined"]

-----------------------------------------------------------------------------
(* saml.service.ts: validateSAMLResponse.                                  *)

\* !result || !result.profile
MissingProfile_ResultOnly(result) == result.kind = "nothing"

MissingProfile(result) ==
    result.kind = "nothing" \/ result.profile = NullProfile

\* validateSAMLResponse from the point where the library's promise settles:
\* the rest of the try block, or the catch block.
ResumeValidation(saml, clock, samlResponse, lib) ==
    LET r == validatePostResponseAsync(saml, clock, samlResponse, lib)
        called == <<"createSAMLStrategy", "validatePostResponseAsync">>
    IN  IF r.threw
        THEN \* the catch block logs the message
             Returned(Failure(r.message, "SAML_RESPONSE_INVALID"),
                      called \o <<"console.error">>)
        ELSE IF MissingProfile(r.result)
        THEN Returned(Failure("Invalid SAML response: missing profile",
                              "SAML_RESPONSE_INVALID"), called)
        ELSE IF r.result.profile = NullProfile
        THEN \* parseSAMLProfile reads a property of null: TypeError, caught
             Returned(Failure("Cannot read properties of null",
                              "SAML_RESPONSE_INVALID"),
                      called \o <<"parseSAMLProfile", "console.error">>)
        ELSE LET profile == parseSAMLProfile(r.result.profile)
                 user == createSAMLUser(profile)
             IN  Returned(Success(user),
                          called \o <<"parseSAMLProfile", "createSAMLUser",
                                      "mapAffiliationToRoles">>)

validateSAMLResponse(e, clock, samlResponse, lib) ==
    IF lib = "ctorThrows"
    THEN \* new SAML(...) throws, before the try block is entered
         Threw("SAML constructor fault", <<"createSAMLStrategy">>)
    ELSE ResumeValidation(createSAMLStrategy(e), clock, samlResponse, lib)

-----------------------------------------------------------------------------
(* server/auth/saml.ts: processSAMLCallback.                               *)

processSAMLCallback_NoGuard(e, clock, samlResponse, lib) ==
    LET v == validateSAMLResponse(e, clock, samlResponse, lib)
        called == <<"validateSAMLResponse">> \o v.calls
    IN  IF v.kind = "threw"
        THEN Returned(Failure(v.value, "SAML_RESPONSE_INVALID"), called)
        ELSE Returned(v.value, called)

processSAMLCallback(e, clock, samlResponse, lib) ==
    IF Falsy(samlResponse)
    THEN Returned(Failure("Missing SAML response", "SAML_RESPONSE_INVALID"), <<>>)
    ELSE LET v == validateSAMLResponse(e, clock, samlResponse, lib)
             called == <<"validateSAMLResponse">> \o v.calls
         IN  IF v.kind = "threw"
             THEN \* the catch block: error.message
                  Returned(Failure(v.value, "SAML_RESPONSE_INVALID"), called)
             ELSE Returned(v.value, called)

-----------------------------------------------------------------------------
(* routes/api/auth/saml/callback: the POST handler.  A Location is kept    *)
(* as its path and its query parameters, each as it is written in the URL. *)
(* An error text is one opaque token, which encodeURIComponent leaves as   *)
(* it is.                                                                  *)

path_root      == <<"/">>
path_dashboard == <<"/","d","a","s","h","b","o","a","r","d">>

RelayStates == {Null, path_dashboard}

PostFaults == LibFaults \cup {"formDataThrows"}

\* JSON.stringify of an object: a property whose value is undefined is left
\* out of the text.
JsonStringify(o) == [k \in { f \in DOMAIN o : o[f] # Undefined } |-> o[k]]

\* encodeURIComponent of a JSON text: the characters of its strings are
\* encoded; roles are words of unreserved characters.
EncodeJson(text) ==
    [k \in DOMAIN text |->
        IF k = "roles" THEN text[k] ELSE encodeURIComponent(text[k])]

LoginRedirect(error) ==
    [ status |-> 302,
      location |-> [path |-> "/login", error |-> error, success |-> "undefined",
                    user |-> NoUser, redirect |-> Undefined] ]

CallbackRedirect(userData, redirectTo) ==
    [ status |-> 302,
      location |-> [path |-> "/auth/saml/callback", error |-> "undefined",
                    success |-> "true", user |-> userData, redirect |-> redirectTo] ]

PostCallback(e, clock, form, fault) ==
    IF fault = "formDataThrows"
    THEN \* request.formData() rejects: the catch block
         Returned(LoginRedirect("server_error"), <<>>)
    ELSE
    LET samlResponse == form.SAMLResponse
        relayState == form.RelayState
    IN  IF Falsy(samlResponse)
        THEN Returned(LoginRedirect("missing_saml_response"), <<>>)
        ELSE
        LET v == validateSAMLResponse(e, clock, samlResponse, fault)
            called == <<"validateSAMLResponse">> \o v.calls
        IN  IF v.kind = "threw"
            THEN Returned(LoginRedirect("server_error"), called)
            ELSE IF v.value.success /\ v.value.user # NoUser
            THEN LET userData ==
                         [ id           |-> v.value.user.id,
                           email        |-> v.value.user.email,
                           name         |-> v.value.user.name,
                           roles        |-> v.value.user.roles,
                           sessionIndex |-> v.value.user.sessionIndex ]
                     redirectTo == Or2(relayState, path_root)
                 IN  Returned(CallbackRedirect(EncodeJson(JsonStringify(userData)),
                                               encodeURIComponent(redirectTo)),
                              called)
            ELSE Returned(LoginRedirect(IF v.value.error \in {"undefined", ""}
                                        THEN "auth_failed"
                                        ELSE v.value.error),
                          called)

-----------------------------------------------------------------------------
(* saml.service.ts: generateAuthUrl, and the library's construction of the *)
(* redirect-binding URL as the request builder's description has it: an    *)
(* AuthnRequest with a fresh ID for issuer and callbackUrl, sent to        *)
(* entryPoint, with RelayState appended, URL-encoded, when provided.       *)

LoginFaults == {"ok", "ctorThrows", "authorizeThrows", "importThrows"}

getAuthorizeUrlAsync(strategy, RelayState, id, lib) ==
    IF lib = "authorizeThrows"
    THEN [threw |-> TRUE, message |-> "SAML library fault", url |-> <<>>]
    ELSE [ threw |-> FALSE, message |-> "",
           url |-> [ origin |-> strategy.entryPoint,
                     path |-> "",
                     SAMLRequest |->
                         [ id     |-> id,
                           issuer |-> strategy.issuer,
                           assertionConsumerServiceURL |-> strategy.callbackUrl ],
                     RelayState |-> IF Truthy(RelayState)
                                    THEN encodeURIComponent(RelayState)
                                    ELSE Undefined ] ]

generateAuthUrl_RootRelay(e, relayState, id, lib) ==
    IF lib = "ctorThrows"
    THEN Threw("SAML constructor fault", <<"createSAMLStrategy">>)
    ELSE LET saml == createSAMLStrategy(e)
             r == getAuthorizeUrlAsync(saml, path_root, id, lib)
             called == <<"createSAMLStrategy", "getAuthorizeUrlAsync">>
         IN  IF r.threw
             THEN Threw("Failed to generate SAML auth URL", called)
             ELSE Returned(r.url, called)

generateAuthUrl(e, relayState, id, lib) ==
    IF lib = "ctorThrows"
    THEN \* new SAML(...) throws, before the try block is entered
         Threw("SAML constructor fault", <<"createSAMLStrategy">>)
    ELSE LET saml == createSAMLStrategy(e)
             r == getAuthorizeUrlAsync(saml, Or2(relayState, path_root), id, lib)
             called == <<"createSAMLStrategy", "getAuthorizeUrlAsync">>
         IN  IF r.threw
             THEN Threw("Failed to generate SAML auth URL", called)
             ELSE Returned(r.url, called)

-----------------------------------------------------------------------------
(* routes/api/auth/saml/login: the GET handler.  `query` holds the         *)
(* parameters of the request URL as searchParams.get returns them.         *)

path_encoded_space == <<"/","a","%","2","0","b">>
path_percent       == <<"/","1","0","0","%">>

\* What the redirect parameter of the login URL can be.
ReturnPaths == {Null, path_root, path_dashboard, path_encoded_space, path_percent}

GetLogin_NoCatch(e, query, id, fault) ==
    IF fault = "importThrows"
    THEN Threw("Cannot find module", <<>>)
    ELSE LET relayState == Or2(query.redirect, path_root)
             g == generateAuthUrl(e, relayState, id, fault)
             called == <<"generateAuthUrl">> \o g.calls
         IN  IF g.kind = "threw"
             THEN Threw(g.value, called)
             ELSE Returned([status |-> 302, location |-> g.value], called)

GetLogin(e, query, id, fault) ==
    IF fault = "importThrows"
    THEN \* the dynamic import rejects: the catch block
         Returned(LoginRedirect("saml_init_failed"), <<>>)
    ELSE LET relayState == Or2(query.redirect, path_root)
             g == generateAuthUrl(e, relayState, id, fault)
             called == <<"generateAuthUrl">> \o g.calls
         IN  IF g.kind = "threw"
             THEN Returned(LoginRedirect("saml_init_failed"), called)
             ELSE Returned([status |-> 302, location |-> g.value], called)

-----------------------------------------------------------------------------
(* context/AuthProvider: the provider as it mounts on an empty             *)
(* localStorage.  null is the empty sequence and an object o the sequence  *)
(* <<o>>; times are in minutes.  The record holds                          *)
(*   user, session, isLoading, error   the React state (lastRefreshed,     *)
(*                which nothing in the component reads, is left out);      *)
(*   storage      the three localStorage entries of STORAGE_KEYS;          *)
(*   pending      the refresh requests in flight, each with its caller and *)
(*                with what it keeps of the session its refreshSession     *)
(*                closure captured: the refresh token it sent, and the     *)
(*                properties the refreshed session takes over;             *)
(*   restoreDue   whether the effect on [restoreSession] is to run.         *)
(*                restoreSession depends on refreshSession and             *)
(*                refreshSession on session, so the effect runs on mount   *)
(*                and after every render that changed session: "due" when  *)
(*                a render has scheduled it, "again" when its own last run *)
(*                set a session and so scheduled the next run, "no"        *)
(*                otherwise;                                               *)
(*   tick         flips whenever the interval timer fires;                 *)
(*   quietSince, loggedOut   observations for the properties: since when   *)
(*                the session is held with no user-activity event (an      *)
(*                updateSession starts the count anew), and                *)
(*                whether logout was the last of login, logout and         *)
(*                updateSession;                                           *)
(*   event        an observation: what the last step of the provider was   *)
(*                ("mount" until the first one).                           *)

EmptyStorage == [session |-> <<>>, user |-> <<>>, lastActivity |-> <<>>]

NoAuth ==
    [ user          |-> <<>>,
      session       |-> <<>>,
      isLoading     |-> TRUE,
      error         |-> <<>>,
      storage       |-> EmptyStorage,
      pending       |-> {},
      restoreDue    |-> "due",
      tick          |-> FALSE,
      quietSince    |-> 0,
      loggedOut     |-> FALSE,
      event         |-> "mount" ]

\* hooks/useKeyboardNav before any list uses it.  key, handled and selected
\* are what the last key event was, what handleKeyDown returned for it and
\* the index it gave onSelect (if it called it); tick flips at every key
\* event.
NoKeyboardNav ==
    [ itemCount |-> 0, circular |-> FALSE, orientation |-> "vertical",
      focusedIndex |-> 0 - 1, key |-> "none", handled |-> FALSE,
      selected |-> <<>>, tick |-> FALSE ]

\* No callback page is mounted.  A mounted page (route "saml" for
\* /auth/saml/callback, "oidc" for /auth/callback) has its processedRef,
\* the search of its URL, whether its effect is due to run, and what it did
\* since it mounted: how often the effect ran (runs), how often it called
\* updateSession or handleLoginCallback (calls), whether that promise is
\* still pending, the error it shows and where it navigates (to).  mounts
\* and total count the mounts and the calls of all mounts so far.
NoCallbackPage ==
    [ route |-> "none", processedRef |-> FALSE, search |-> <<>>,
      effectDue |-> FALSE, runs |-> 0, calls |-> 0, pending |-> FALSE,
      error |-> "undefined", to |-> <<>>, mounts |-> 0, total |-> 0 ]

\* The AuthProvider of hooks/useAuth.tsx before it is mounted.  One state
\* object holds user, session, isAuthenticated, isLoading and error; null is
\* <<>> and an object o is <<o>>.  `storage` is the pair of localStorage
\* entries persistSession writes, `timers` counts the setTimeout calls of
\* mockLogin and mockRefreshSession that have not fired, `checkDue` says the
\* mount effect has not run yet.
NoHookAuth ==
    [ mounted |-> FALSE, useMock |-> TRUE,
      user |-> <<>>, session |-> <<>>, isAuthenticated |-> FALSE,
      isLoading |-> TRUE, error |-> <<>>,
      storage |-> <<>>, checkDue |-> FALSE,
      timers |-> [login |-> 0, refresh |-> 0] ]

\* The AuthProvider built on oidc-client-ts before it is mounted.  `store` is
\* the user the UserManager keeps in its WebStorageStateStore, `listening`
\* says the effect has registered the event handlers, `pending` counts the
\* calls of the UserManager that have not settled, `away` says the browser
\* has left the application for the identity provider.
NoOidcAuth ==
    [ mounted |-> FALSE,
      user |-> <<>>, session |-> <<>>, isAuthenticated |-> FALSE,
      isLoading |-> TRUE, error |-> <<>>,
      store |-> <<>>, effectDue |-> FALSE, listening |-> FALSE,
      away |-> FALSE,
      pending |-> [getUser |-> 0, signinRedirectCallback |-> 0] ]

-----------------------------------------------------------------------------
(* Calls in flight.  A request names the operation and carries its         *)
(* argument and the fault the library shows while serving it; the outcome  *)
(* is what the operation produced.                                         *)

NoRequest == [op |-> "none", arg |-> <<>>, lib |-> "ok"]
NoOutcome == [kind |-> "none", value |-> <<>>, calls |-> <<>>]

Idle == request.op = "none"

\* No login attempt is under way in the browser.
NoSearch ==
    [success |-> "undefined", user |-> <<>>, redirect |-> Undefined,
     error |-> "undefined"]
NoSession == <<>>
NoBrowser ==
    [ pc |-> "idle", returnPath |-> Null, relay |-> Null,
      requestId |-> NoRequestId, search |-> NoSearch, at |-> Undefined,
      session |-> NoSession, error |-> "undefined",
      resubmitted |-> FALSE, first |-> NoOutcome, validated |-> <<>> ]

\* No invocation of validateSAMLResponse is under way.
CallIds == {1, 2}
NoCall ==
    [ pc |-> "idle", op |-> "none", arg |-> SamlResponseNull, lib |-> "ok",
      saml |-> <<>>, clock |-> 0, overlapped |-> FALSE, result |-> NoOutcome ]
NoCalls == [i \in CallIds |-> NoCall]

\* The handler of a request for `op` has finished.
Done(op) == request.op = op /\ outcome.kind # "none"

\* The caller has taken the outcome.
Complete ==
    /\ outcome.kind # "none"
    /\ request' = NoRequest
    /\ outcome' = NoOutcome
    /\ UNCHANGED <<env, now, browser, authnRequests, invocations, authProvider, keyboardNav, callbackPage, hookAuth, oidcAuth>>

\* Time passes between requests.
Tick ==
    /\ Idle
    /\ now < MaxTime
    /\ now' = now + 1
    /\ UNCHANGED <<env, request, outcome, browser, authnRequests, invocations, authProvider, keyboardNav, callbackPage, hookAuth, oidcAuth>>

-----------------------------------------------------------------------------
(* The validator, the server function and the callback endpoint.           *)

InvokeValidateSAMLResponse ==
    /\ Idle
    /\ \E r \in SamlResponseStrings \cup {SamlResponseEmpty}, l \in LibFaults :
          request' = [op |-> "validateSAMLResponse", arg |-> r, lib |-> l]
    /\ UNCHANGED <<env, now, outcome, browser, authnRequests, invocations, authProvider, keyboardNav, callbackPage, hookAuth, oidcAuth>>

RunValidateSAMLResponse ==
    /\ request.op = "validateSAMLResponse"
    /\ outcome.kind = "none"
    /\ outcome' = validateSAMLResponse(env, now, request.arg, request.lib)
    /\ UNCHANGED <<env, now, request, browser, authnRequests, invocations, authProvider, keyboardNav, callbackPage, hookAuth, oidcAuth>>

InvokeProcessSAMLCallback ==
    /\ Idle
    /\ \E r \in SamlResponseFields, l \in LibFaults :
          request' = [op |-> "processSAMLCallback", arg |-> r, lib |-> l]
    /\ UNCHANGED <<env, now, outcome, browser, authnRequests, invocations, authProvider, keyboardNav, callbackPage, hookAuth, oidcAuth>>

RunProcessSAMLCallback ==
    /\ request.op = "processSAMLCallback"
    /\ outcome.kind = "none"
    /\ outcome' = processSAMLCallback(env, now, request.arg, request.lib)
    /\ UNCHANGED <<env, now, request, browser, authnRequests, invocations, authProvider, keyboardNav, callbackPage, hookAuth, oidcAuth>>

\* The browser delivers the IdP's POST to /api/auth/saml/callback.
ReceivePostCallback ==
    /\ Idle
    /\ \E r \in SamlResponseFields, rs \in RelayStates, l \in PostFaults :
          request' = [op |-> "POST /api/auth/saml/callback",
                      arg |-> [SAMLResponse |-> r, RelayState |-> rs],
                      lib |-> l]
    /\ UNCHANGED <<env, now, outcome, browser, authnRequests, invocations, authProvider, keyboardNav, callbackPage, hookAuth, oidcAuth>>

\* The user validateSAMLResponse returned with Success while the endpoint
\* served this form, if it did: an observation kept in browser.validated.
ServerValidated(e, clock, form, fault) ==
    IF fault = "formDataThrows" \/ Falsy(form.SAMLResponse)
    THEN <<>>
    ELSE LET v == validateSAMLResponse(e, clock, form.SAMLResponse, fault)
         IN  IF v.kind = "returned" /\ v.value.success /\ v.value.user # NoUser
             THEN << [ id    |-> v.value.user.id,
                       email |-> v.value.user.email,
                       name  |-> v.value.user.name,
                       roles |-> v.value.user.roles ] >>
             ELSE <<>>

RunPostCallback ==
    /\ request.op = "POST /api/auth/saml/callback"
    /\ outcome.kind = "none"
    /\ outcome' = PostCallback(env, now, request.arg, request.lib)
    /\ browser' = [browser EXCEPT
                      !.validated = ServerValidated(env, now, request.arg, request.lib)]
    /\ UNCHANGED <<env, now, request, authnRequests, invocations, authProvider, keyboardNav, callbackPage, hookAuth, oidcAuth>>

Init ==
    /\ env \in Envs
    /\ now = 0
    /\ request = NoRequest
    /\ outcome = NoOutcome
    /\ browser = NoBrowser
    /\ authnRequests = {}
    /\ invocations = NoCalls
    /\ authProvider = NoAuth
    /\ oidcAuth = NoOidcAuth
    /\ hookAuth = NoHookAuth
    /\ callbackPage = NoCallbackPage
    /\ keyboardNav = NoKeyboardNav

Next ==
    \/ InvokeValidateSAMLResponse
    \/ RunValidateSAMLResponse
    \/ InvokeProcessSAMLCallback
    \/ RunProcessSAMLCallback
    \/ ReceivePostCallback
    \/ RunPostCallback
    \/ Tick
    \/ Complete

Spec == Init /\ [][Next]_vars

-----------------------------------------------------------------------------
(* The role mapper called on its own.                                      *)

DevEnv ==
    [ NODE_ENV          |-> "development",
      SAML_ENTRY_POINT  |-> Undefined,
      SAML_ISSUER       |-> Undefined,
      SAML_CALLBACK_URL |-> Undefined,
      SAML_IDP_CERT     |-> Undefined ]

InvokeMapAffiliationToRoles ==
    /\ Idle
    /\ \E a \in AffiliationInputs :
          request' = [op |-> "mapAffiliationToRoles", arg |-> a, lib |-> "ok"]
    /\ UNCHANGED <<env, now, outcome, browser, authnRequests, invocations, authProvider, keyboardNav, callbackPage, hookAuth, oidcAuth>>

RunMapAffiliationToRoles ==
    /\ request.op = "mapAffiliationToRoles"
    /\ outcome.kind = "none"
    /\ outcome' = Returned(mapAffiliationToRoles(request.arg),
                           <<"mapAffiliationToRoles">>)
    /\ UNCHANGED <<env, now, request, browser, authnRequests, invocations, authProvider, keyboardNav, callbackPage, hookAuth, oidcAuth>>

InitRoles ==
    /\ env = DevEnv
    /\ now = 0
    /\ request = NoRequest
    /\ outcome = NoOutcome
    /\ browser = NoBrowser
    /\ authnRequests = {}
    /\ invocations = NoCalls
    /\ authProvider = NoAuth
    /\ oidcAuth = NoOidcAuth
    /\ hookAuth = NoHookAuth
    /\ callbackPage = NoCallbackPage
    /\ keyboardNav = NoKeyboardNav

NextRoles ==
    \/ InvokeMapAffiliationToRoles
    \/ RunMapAffiliationToRoles
    \/ Complete

SpecRoles == InitRoles /\ [][NextRoles]_vars

-----------------------------------------------------------------------------
(* Profile normalization: validateSAMLResponse on accepted responses that  *)
(* differ in the attributes the IdP releases.                              *)

\* What one attribute of a release can hold.
CandidateValues == {Undefined, EmptyStr, c_jdoe, c_Jane, c_Doe}

\* A multi-valued attribute arrives as a string (one value) or as an array
\* (several values).
CandidateAffiliations ==
    { AffUndefined, AffString(EmptyStr), AffString(s_staff),
      AffString(s_faculty), AffArray(<<s_member, s_student>>) }

\* Releases that differ in the candidates of one target field.
CandidateProfiles ==
    { [BlankProfile EXCEPT !.email = a, !.oid_mail = b, !.mail = c] :
          a \in CandidateValues, b \in CandidateValues, c \in CandidateValues }
    \cup
    { [BlankProfile EXCEPT !.displayName = a, !.oid_displayName = b, !.cn = c] :
          a \in CandidateValues, b \in CandidateValues, c \in CandidateValues }
    \cup
    { [BlankProfile EXCEPT !.firstName = a, !.givenName = b, !.oid_givenName = c] :
          a \in CandidateValues, b \in CandidateValues, c \in CandidateValues }
    \cup
    { [BlankProfile EXCEPT !.lastName = a, !.sn = b, !.oid_sn = c] :
          a \in CandidateValues, b \in CandidateValues, c \in CandidateValues }
    \cup
    { [BlankProfile EXCEPT !.uid = a, !.oid_uid = b, !.nameID = c] :
          a \in CandidateValues, b \in CandidateValues, c \in CandidateValues }
    \cup
    { [BlankProfile EXCEPT !.eduPersonAffiliation = a,
                           !.oid_eduPersonAffiliation = b] :
          a \in CandidateAffiliations, b \in CandidateAffiliations }

\* Releases that differ in what the display name is built from.
NameProfiles ==
    { [BlankProfile EXCEPT !.uid = u, !.displayName = d, !.givenName = g,
                           !.sn = s, !.mail = m, !.nameID = n] :
          u \in {Undefined, c_jdoe},
          d \in {Undefined, c_Jane_Q},
          g \in {Undefined, EmptyStr, c_Jane},
          s \in {Undefined, c_Doe},
          m \in {Undefined, c_jdoe_mail, c_ucsc_edu, c_jdoe},
          n \in {Undefined, EmptyStr, c_jdoe, c_jdoe_mail} }

ProfileInputs == RawProfiles \cup CandidateProfiles \cup NameProfiles

\* A response the validator accepts at time 0 under DevEnv.
AcceptedResponse(rawProfile) ==
    [ kind |-> "blob", decodable |-> TRUE, signature |-> "valid",
      notBefore |-> 0, notOnOrAfter |-> MaxTime, audience |-> url_issuer,
      inResponseTo |-> NoRequestId, profile |-> rawProfile ]

InvokeValidateRelease ==
    /\ Idle
    /\ \E p \in ProfileInputs :
          request' = [op |-> "validateSAMLResponse",
                      arg |-> AcceptedResponse(p), lib |-> "ok"]
    /\ UNCHANGED <<env, now, outcome, browser, authnRequests, invocations, authProvider, keyboardNav, callbackPage, hookAuth, oidcAuth>>

InitProfile ==
    /\ env = DevEnv
    /\ now = 0
    /\ request = NoRequest
    /\ outcome = NoOutcome
    /\ browser = NoBrowser
    /\ authnRequests = {}
    /\ invocations = NoCalls
    /\ authProvider = NoAuth
    /\ oidcAuth = NoOidcAuth
    /\ hookAuth = NoHookAuth
    /\ callbackPage = NoCallbackPage
    /\ keyboardNav = NoKeyboardNav

NextProfile ==
    \/ InvokeValidateRelease
    \/ RunValidateSAMLResponse
    \/ Complete

SpecProfile == InitProfile /\ [][NextProfile]_vars

-----------------------------------------------------------------------------
(* routes/auth/saml/callback: the client page of the success redirect.     *)
(* The router hands the page the query parameters of its URL, each value   *)
(* percent-decoded once, as validateSearch types them.                     *)

path_login == <<"/","l","o","g","i","n">>

\* decodeURIComponent of a JSON text.
DecodeJson(text) ==
    IF \E k \in DOMAIN text \ {"roles"} : ~decodeURIComponent(text[k]).ok
    THEN URIError
    ELSE [ ok |-> TRUE,
           value |-> [k \in DOMAIN text |->
                         IF k = "roles" THEN text[k]
                         ELSE decodeURIComponent(text[k]).value] ]

\* Route.useSearch() for the Location the server redirected to.
useSearch(location) ==
    [ success  |-> location.success,
      user     |-> IF location.user = <<>> THEN <<>>
                   ELSE DecodeJson(location.user).value,
      redirect |-> IF location.redirect = Undefined THEN Undefined
                   ELSE decodeURIComponent(location.redirect).value,
      error    |-> location.error ]

\* obj.k of a parsed JSON object.
Prop(obj, k) == IF k \in DOMAIN obj THEN obj[k] ELSE Undefined

\* What processCallback did: the session handed to updateSession (if any),
\* the error shown (if any) and the path navigated to.
PageResult(session, error, to) == [session |-> session, error |-> error, to |-> to]

processCallback(search, clock) ==
    IF search.error # "undefined"
    THEN \* setError(decodeURIComponent(search.error)); '/login' after 3 s
         PageResult(NoSession, search.error, path_login)
    ELSE IF search.success = "true" /\ search.user # <<>>
    THEN LET decoded == DecodeJson(search.user)
         IN  IF ~decoded.ok
             THEN \* URIError: the catch block
                  PageResult(NoSession, "An error occurred during authentication",
                             path_login)
             ELSE
             LET userData == decoded.value
                 session ==
                     [ user |-> [ id    |-> Prop(userData, "id"),
                                  email |-> Prop(userData, "email"),
                                  name  |-> Prop(userData, "name"),
                                  roles |-> Prop(userData, "roles") ],
                       token        |-> [prefix |-> "saml-session-", at |-> clock],
                       refreshToken |-> EmptyStr,
                       expiresAt    |-> [at |-> clock, plusMinutes |-> 30],
                       sessionId    |-> Prop(userData, "sessionIndex") ]
                 redirectTo ==
                     IF Truthy(search.redirect)
                     THEN decodeURIComponent(search.redirect)
                     ELSE [ok |-> TRUE, value |-> path_root]
             IN  IF ~redirectTo.ok
                 THEN \* URIError after updateSession(session): the catch block
                      PageResult(session, "An error occurred during authentication",
                                 path_login)
                 ELSE PageResult(session, "undefined", redirectTo.value)
    ELSE PageResult(NoSession, "Invalid callback - missing authentication data",
                    path_login)

-----------------------------------------------------------------------------
(* A login attempt from end to end: the browser asks for the login URL, is *)
(* sent to the IdP, posts the IdP's form to the callback endpoint, follows *)
(* the redirect and runs the callback page.  The IdP hands RelayState back *)
(* as it received it; what it asserts, and for which request, is its own   *)
(* choice.  A form can also arrive with no login before it, and the same   *)
(* form can be submitted again.                                            *)

\* The responses an IdP posts at time 0.
FlowResponses ==
    { [r EXCEPT !.inResponseTo = i] :
          r \in { x \in IdPResponses : x.notBefore = 0 },
          i \in {NoRequestId} \cup RequestIds }

\* The ID the library gives the next AuthnRequest.
NextRequestId == Cardinality(authnRequests) + 1

\* The browser opens /api/auth/saml/login, with or without ?redirect=.
VisitLogin ==
    /\ Idle
    /\ browser.pc = "idle"
    /\ NextRequestId <= MaxRequests
    /\ \E rp \in ReturnPaths, l \in LoginFaults :
          /\ request' = [op |-> "GET /api/auth/saml/login",
                         arg |-> [redirect |-> rp], lib |-> l]
          /\ browser' = [NoBrowser EXCEPT !.pc = "login", !.returnPath = rp]
    /\ UNCHANGED <<env, now, outcome, authnRequests, invocations, authProvider, keyboardNav, callbackPage, hookAuth, oidcAuth>>

RunGetLogin ==
    /\ request.op = "GET /api/auth/saml/login"
    /\ outcome.kind = "none"
    /\ outcome' = GetLogin(env, request.arg, NextRequestId, request.lib)
    /\ authnRequests' =
          IF outcome'.kind = "returned" /\ outcome'.value.location.path = ""
          THEN authnRequests \cup {NextRequestId}
          ELSE authnRequests
    /\ UNCHANGED <<env, now, request, browser, invocations, authProvider, keyboardNav, callbackPage, hookAuth, oidcAuth>>

\* The browser follows the 302 of the login endpoint.
FollowLoginRedirect ==
    /\ Done("GET /api/auth/saml/login")
    /\ outcome.kind = "returned"
    /\ LET location == outcome.value.location
       IN  browser' =
              IF location.path = ""
              THEN [browser EXCEPT
                       !.pc = "idp",
                       !.requestId = location.SAMLRequest.id,
                       !.relay = IF location.RelayState = Undefined THEN Null
                                 ELSE decodeURIComponent(location.RelayState).value]
              ELSE [browser EXCEPT !.pc = "landed", !.at = path_login,
                                   !.error = location.error]
    /\ request' = NoRequest
    /\ outcome' = NoOutcome
    /\ UNCHANGED <<env, now, authnRequests, invocations, authProvider, keyboardNav, callbackPage, hookAuth, oidcAuth>>

\* The IdP's form reaches /api/auth/saml/callback: the answer to a login
\* under way, or a form nobody asked for.
PostFromIdP ==
    /\ Idle
    /\ browser.pc \in {"idp", "idle"}
    /\ \E r \in FlowResponses, l \in PostFaults,
          rs \in IF browser.pc = "idp" THEN {browser.relay} ELSE {Null, path_dashboard} :
          /\ request' = [op |-> "POST /api/auth/saml/callback",
                         arg |-> [SAMLResponse |-> r, RelayState |-> rs],
                         lib |-> l]
          /\ browser' = [browser EXCEPT !.pc = "posted", !.relay = rs]
    /\ UNCHANGED <<env, now, outcome, authnRequests, invocations, authProvider, keyboardNav, callbackPage, hookAuth, oidcAuth>>

\* The same form is submitted once more.
ResubmitPost ==
    /\ Done("POST /api/auth/saml/callback")
    /\ browser.pc = "posted"
    /\ ~browser.resubmitted
    /\ browser' = [browser EXCEPT !.resubmitted = TRUE, !.first = outcome]
    /\ outcome' = NoOutcome
    /\ UNCHANGED <<env, now, request, authnRequests, invocations, authProvider, keyboardNav, callbackPage, hookAuth, oidcAuth>>

\* The browser follows the 302 of the callback endpoint; on the callback
\* page the router parses the query.
FollowCallbackRedirect ==
    /\ Done("POST /api/auth/saml/callback")
    /\ browser.pc = "posted"
    /\ outcome.kind = "returned"
    /\ LET location == outcome.value.location
       IN  browser' =
              IF location.path = "/auth/saml/callback"
              THEN [browser EXCEPT !.pc = "page", !.search = useSearch(location)]
              ELSE [browser EXCEPT !.pc = "landed", !.at = path_login,
                                   !.error = location.error]
    /\ request' = NoRequest
    /\ outcome' = NoOutcome
    /\ UNCHANGED <<env, now, authnRequests, invocations, authProvider, keyboardNav, callbackPage, hookAuth, oidcAuth>>

\* The effect of SAMLCallbackPage runs.
RunSAMLCallbackPage ==
    /\ browser.pc = "page"
    /\ LET done == processCallback(browser.search, now)
       IN  browser' = [browser EXCEPT !.pc = "landed", !.session = done.session,
                                      !.error = done.error, !.at = done.to]
    /\ UNCHANGED <<env, now, request, outcome, authnRequests, invocations, authProvider, keyboardNav, callbackPage, hookAuth, oidcAuth>>

\* The user starts over.
Leave ==
    /\ browser.pc = "landed"
    /\ browser' = NoBrowser
    /\ UNCHANGED <<env, now, request, outcome, authnRequests, invocations, authProvider, keyboardNav, callbackPage, hookAuth, oidcAuth>>

\* generateAuthUrl called by the server function initiateSAMLLogin or by
\* any other caller.
InvokeGenerateAuthUrl ==
    /\ Idle
    /\ browser.pc = "idle"
    /\ NextRequestId <= MaxRequests
    /\ \E r \in ReturnPaths \cup {Undefined, EmptyStr},
          l \in LoginFaults \ {"importThrows"} :
          request' = [op |-> "generateAuthUrl", arg |-> r, lib |-> l]
    /\ UNCHANGED <<env, now, outcome, browser, authnRequests, invocations, authProvider, keyboardNav, callbackPage, hookAuth, oidcAuth>>

RunGenerateAuthUrl ==
    /\ request.op = "generateAuthUrl"
    /\ outcome.kind = "none"
    /\ outcome' = generateAuthUrl(env, request.arg, NextRequestId, request.lib)
    /\ authnRequests' = IF outcome'.kind = "returned"
                        THEN authnRequests \cup {NextRequestId}
                        ELSE authnRequests
    /\ UNCHANGED <<env, now, request, browser, invocations, authProvider, keyboardNav, callbackPage, hookAuth, oidcAuth>>

\* The caller of generateAuthUrl takes the URL or the exception.
ReturnGenerateAuthUrl ==
    /\ Done("generateAuthUrl")
    /\ request' = NoRequest
    /\ outcome' = NoOutcome
    /\ UNCHANGED <<env, now, browser, authnRequests, invocations, authProvider, keyboardNav, callbackPage, hookAuth, oidcAuth>>

\* The user data of a link that somebody else wrote.
ForgedUser ==
    [ id           |-> <<"e","v","e">>,
      email        |-> <<"e","v","e","@","x",".","o","r","g">>,
      name         |-> <<"E","v","e">>,
      roles        |-> <<"admin">>,
      sessionIndex |-> Undefined ]

\* The queries of links to /auth/saml/callback that no server response
\* produced: written like the success redirect, with any user data, or
\* with less.
ForgedLocations ==
    { CallbackRedirect(EncodeJson(JsonStringify(ForgedUser)),
                       encodeURIComponent(path_root)).location,
      [CallbackRedirect(EncodeJson(JsonStringify(ForgedUser)),
                        encodeURIComponent(path_dashboard)).location
          EXCEPT !.success = "false"],
      [CallbackRedirect(<<>>, Undefined).location EXCEPT !.success = "true"] }

\* The browser opens /auth/saml/callback?... from a link or the address
\* bar, with no request to the server before it.
OpenCallbackUrl ==
    /\ Idle
    /\ browser.pc = "idle"
    /\ \E location \in ForgedLocations :
          browser' = [NoBrowser EXCEPT !.pc = "page", !.search = useSearch(location)]
    /\ UNCHANGED <<env, now, request, outcome, authnRequests, invocations, authProvider, keyboardNav, callbackPage, hookAuth, oidcAuth>>

InitFlow ==
    /\ env \in Envs
    /\ now = 0
    /\ request = NoRequest
    /\ outcome = NoOutcome
    /\ browser = NoBrowser
    /\ authnRequests = {}
    /\ invocations = NoCalls
    /\ authProvider = NoAuth
    /\ oidcAuth = NoOidcAuth
    /\ hookAuth = NoHookAuth
    /\ callbackPage = NoCallbackPage
    /\ keyboardNav = NoKeyboardNav

NextFlow ==
    \/ VisitLogin
    \/ RunGetLogin
    \/ FollowLoginRedirect
    \/ PostFromIdP
    \/ RunPostCallback
    \/ ResubmitPost
    \/ FollowCallbackRedirect
    \/ RunSAMLCallbackPage
    \/ Leave
    \/ InvokeGenerateAuthUrl
    \/ RunGenerateAuthUrl
    \/ ReturnGenerateAuthUrl

SpecFlow == InitFlow /\ [][NextFlow]_vars

\* The login flow in a browser that also opens links to the callback page.
NextPage ==
    \/ NextFlow
    \/ OpenCallbackUrl

SpecPage == InitFlow /\ [][NextPage]_vars

-----------------------------------------------------------------------------
(* Concurrent invocations of validateSAMLResponse.  An invocation runs to  *)
(* its await in one step (createSAMLStrategy, the call of the library) and *)
(* from the settling of the library's promise to its return in another;    *)
(* other invocations and the clock move in between.                        *)

\* The responses handed to concurrent invocations.
InvocationResponses ==
    { r \in IdPResponses : /\ r.notBefore = 0
                           /\ r.notOnOrAfter = MaxTime
                           /\ r.audience = url_issuer
                           /\ r.profile = JaneDoeProfile }
    \cup {SamlResponseGarbage}

InvocationFaults == {"ok", "ctorThrows", "noResult"}

\* Another invocation is suspended at its await.  (The overlapped field of
\* an invocation records that it was in flight together with another one.)
OthersAwaiting(cs, i) == { j \in CallIds \ {i} : cs[j].pc = "awaiting" }

\* The samlResponse parameter as invocation i sees it.
ResponseOf_LastCaller(cs, i) ==
    IF OthersAwaiting(cs, i) # {}
    THEN cs[CHOOSE j \in OthersAwaiting(cs, i) : TRUE].arg
    ELSE cs[i].arg

ResponseOf(cs, i) == cs[i].arg

BeginValidation(i) ==
    /\ invocations[i].pc = "idle"
    /\ \E r \in InvocationResponses, l \in InvocationFaults :
          LET overlap == OthersAwaiting(invocations, i) # {}
              begun ==
                  IF l = "ctorThrows"
                  THEN [NoCall EXCEPT !.pc = "done", !.arg = r, !.lib = l,
                                      !.op = "validateSAMLResponse",
                                      !.clock = now, !.overlapped = overlap,
                                      !.result = validateSAMLResponse(env, now, r, l)]
                  ELSE [NoCall EXCEPT !.pc = "awaiting", !.arg = r, !.lib = l,
                                      !.op = "validateSAMLResponse",
                                      !.saml = createSAMLStrategy(env),
                                      !.overlapped = overlap]
          IN  invocations' =
                  [j \in CallIds |->
                      IF j = i THEN begun
                      ELSE IF invocations[j].pc = "awaiting"
                      THEN [invocations[j] EXCEPT !.overlapped = TRUE]
                      ELSE invocations[j]]
    /\ UNCHANGED <<env, now, request, outcome, browser, authnRequests, authProvider, keyboardNav, callbackPage, hookAuth, oidcAuth>>

SettleValidation(i) ==
    /\ invocations[i].pc = "awaiting"
    /\ invocations' =
          [invocations EXCEPT
              ![i].pc = "done",
              ![i].clock = now,
              ![i].result = ResumeValidation(invocations[i].saml, now,
                                             ResponseOf(invocations, i),
                                             invocations[i].lib)]
    /\ UNCHANGED <<env, now, request, outcome, browser, authnRequests, authProvider, keyboardNav, callbackPage, hookAuth, oidcAuth>>

\* The caller takes the AuthResult.
ReturnValidation(i) ==
    /\ invocations[i].pc = "done"
    /\ invocations' = [invocations EXCEPT ![i] = NoCall]
    /\ UNCHANGED <<env, now, request, outcome, browser, authnRequests, authProvider, keyboardNav, callbackPage, hookAuth, oidcAuth>>

InitConcurrent ==
    /\ env \in Envs
    /\ now = 0
    /\ request = NoRequest
    /\ outcome = NoOutcome
    /\ browser = NoBrowser
    /\ authnRequests = {}
    /\ invocations = NoCalls
    /\ authProvider = NoAuth
    /\ oidcAuth = NoOidcAuth
    /\ hookAuth = NoHookAuth
    /\ callbackPage = NoCallbackPage
    /\ keyboardNav = NoKeyboardNav

NextConcurrent ==
    \/ \E i \in CallIds : BeginValidation(i)
    \/ \E i \in CallIds : SettleValidation(i)
    \/ \E i \in CallIds : ReturnValidation(i)
    \/ Tick

SpecConcurrent == InitConcurrent /\ [][NextConcurrent]_vars

-----------------------------------------------------------------------------
(* saml.service.ts: generateMetadata, and the configuration as the calls   *)
(* of a running process read it (specification SpecConfig).  Each call     *)
(* keeps the options it handed to `new SAML(...)` in its saml field.       *)

\* The Service-Provider metadata document, by what it describes.
generateServiceProviderMetadata(strategy) ==
    [ entityID                 |-> strategy.issuer,
      assertionConsumerService |-> strategy.callbackUrl ]

generateMetadata(e, lib) ==
    IF lib = "ctorThrows"
    THEN Threw("SAML constructor fault", <<"createSAMLStrategy">>)
    ELSE Returned(generateServiceProviderMetadata(createSAMLStrategy(e)),
                  <<"createSAMLStrategy", "generateServiceProviderMetadata">>)

\* The armor lines with CR LF line ends, and a body broken over two lines.
cert_pem_crlf ==
    pem_begin \o <<"\r", "\n">> \o cert_raw \o <<"\r", "\n">> \o pem_end
cert_pem_wrapped ==
    pem_begin \o <<"\n", "M", "I", "\n", "I", "B", "\n">> \o pem_end

\* What SAML_IDP_CERT can hold.
CertSettings == {Undefined, cert_raw, cert_pem, cert_pem_crlf, cert_pem_wrapped}

ConfigEnvs ==
    [ NODE_ENV          : {"production", "development", "test", "Production"},
      SAML_ENTRY_POINT  : {Undefined},
      SAML_ISSUER       : {Undefined},
      SAML_CALLBACK_URL : {Undefined},
      SAML_IDP_CERT     : CertSettings ]

\* The response handed to the validations of this specification.
ConfigResponse ==
    CHOOSE r \in InvocationResponses :
        /\ r # SamlResponseGarbage
        /\ r.signature = "valid"
        /\ r.decodable

ConfigFaults == {"ok", "ctorThrows"}

\* process.env is assigned while the process runs.
SetEnv ==
    /\ \E e \in ConfigEnvs : e # env /\ env' = e
    /\ UNCHANGED <<now, request, outcome, browser, authnRequests, invocations, authProvider, keyboardNav, callbackPage, hookAuth, oidcAuth>>

CallGetSAMLConfig(i) ==
    /\ invocations[i].pc = "idle"
    /\ invocations' =
          [invocations EXCEPT
              ![i] = [NoCall EXCEPT !.pc = "done", !.op = "getSAMLConfig",
                                    !.result = Returned(getSAMLConfig(env), <<>>)]]
    /\ UNCHANGED <<env, now, request, outcome, browser, authnRequests, authProvider, keyboardNav, callbackPage, hookAuth, oidcAuth>>

CallGenerateMetadata(i) ==
    /\ invocations[i].pc = "idle"
    /\ \E l \in ConfigFaults :
          invocations' =
              [invocations EXCEPT
                  ![i] = [NoCall EXCEPT
                             !.pc = "done", !.op = "generateMetadata", !.lib = l,
                             !.saml = IF l = "ctorThrows" THEN <<>>
                                      ELSE createSAMLStrategy(env),
                             !.result = generateMetadata(env, l)]]
    /\ UNCHANGED <<env, now, request, outcome, browser, authnRequests, authProvider, keyboardNav, callbackPage, hookAuth, oidcAuth>>

CallGenerateAuthUrl(i) ==
    /\ invocations[i].pc = "idle"
    /\ \E l \in ConfigFaults :
          invocations' =
              [invocations EXCEPT
                  ![i] = [NoCall EXCEPT
                             !.pc = "done", !.op = "generateAuthUrl", !.lib = l,
                             !.saml = IF l = "ctorThrows" THEN <<>>
                                      ELSE createSAMLStrategy(env),
                             !.result = generateAuthUrl(env, Undefined, 1, l)]]
    /\ UNCHANGED <<env, now, request, outcome, browser, authnRequests, authProvider, keyboardNav, callbackPage, hookAuth, oidcAuth>>

\* A validation whose await is not interleaved with another call: the
\* instance is constructed before the await and is the one that validates.
CallValidateSAMLResponse(i) ==
    /\ invocations[i].pc = "idle"
    /\ \E l \in ConfigFaults :
          invocations' =
              [invocations EXCEPT
                  ![i] = [NoCall EXCEPT
                             !.pc = "done", !.op = "validateSAMLResponse",
                             !.arg = ConfigResponse, !.lib = l, !.clock = now,
                             !.saml = IF l = "ctorThrows" THEN <<>>
                                      ELSE createSAMLStrategy(env),
                             !.result = validateSAMLResponse(env, now,
                                                             ConfigResponse, l)]]
    /\ UNCHANGED <<env, now, request, outcome, browser, authnRequests, authProvider, keyboardNav, callbackPage, hookAuth, oidcAuth>>

InitConfig ==
    /\ env \in ConfigEnvs
    /\ now = 0
    /\ request = NoRequest
    /\ outcome = NoOutcome
    /\ browser = NoBrowser
    /\ authnRequests = {}
    /\ invocations = NoCalls
    /\ authProvider = NoAuth
    /\ oidcAuth = NoOidcAuth
    /\ hookAuth = NoHookAuth
    /\ callbackPage = NoCallbackPage
    /\ keyboardNav = NoKeyboardNav

NextConfig ==
    \/ SetEnv
    \/ \E i \in CallIds : CallGetSAMLConfig(i)
    \/ \E i \in CallIds : CallGenerateMetadata(i)
    \/ \E i \in CallIds : CallGenerateAuthUrl(i)
    \/ \E i \in CallIds : CallValidateSAMLResponse(i)
    \/ \E i \in CallIds : ReturnValidation(i)

SpecConfig == InitConfig /\ [][NextConfig]_vars

-----------------------------------------------------------------------------
(* components/ProtectedRoute: the beforeLoad guard of a protected route.   *)
(* null is the empty sequence here; an object is a record of the           *)
(* properties it has, and a property value that typeof tells apart         *)
(* carries its type.                                                        *)

href_dashboard == <<"/dashboard">>
href_admin     == <<"/admin?tab=users">>

Str(s) == [type |-> "string", v |-> s]
Num(n) == [type |-> "number", v |-> n]

\* What auth.error can hold: null, an AuthError, an Error without a code,
\* an error object whose code is a number.
GuardErrors ==
    { <<>>,
      [code |-> Str("SESSION_EXPIRED"), message |-> Str("Session expired")],
      [message |-> Str("Network down")],
      [code |-> Num(20), message |-> Str("Aborted")] }

\* auth.types.ts: isAuthError.
isAuthError(error) ==
    /\ error # <<>>
    /\ "code" \in DOMAIN error
    /\ "message" \in DOMAIN error
    /\ error.code.type = "string"
    /\ error.message.type = "string"

\* ProtectedRouteOptions.roles.
GuardRoles == {Undefined, <<>>, <<"admin">>, <<"admin", "instructor">>}

\* The users of the router context, by their roles.
GuardUsers ==
    { [roles |-> r] : r \in {<<>>, <<"student">>, <<"admin">>,
                             <<"student", "instructor">>} }

\* The auth object of the router context.  The provider computes
\* isAuthenticated as !!user && !!session.
GuardContexts ==
    { a \in [ isAuthenticated : BOOLEAN,
              isLoading       : BOOLEAN,
              user            : {<<>>} \cup { <<u>> : u \in GuardUsers },
              error           : GuardErrors ] :
          a.isAuthenticated => a.user # <<>> }

\* requiredRoles.some((role) => userRoles.includes(role))
HasRequiredRole(requiredRoles, userRoles) ==
    \E i \in 1..Len(requiredRoles) :
        \E j \in 1..Len(userRoles) : userRoles[j] = requiredRoles[i]

\* The function createProtectedBeforeLoad({roles}) returns, applied to
\* {context: {auth}, location: {href}}.
protectedBeforeLoad(roles, auth, location) ==
    IF auth.isLoading
    THEN \* the route shows its pendingComponent
         Returned(Undefined, <<>>)
    ELSE IF auth.error # <<>> /\ isAuthError(auth.error)
    THEN Threw([ to |-> "/login",
                 search |-> [ returnUrl |-> location,
                              reason |-> auth.error.code.v ] ], <<"redirect">>)
    ELSE IF ~auth.isAuthenticated
    THEN Threw([ to |-> "/login",
                 search |-> [ returnUrl |-> location ] ], <<"redirect">>)
    ELSE IF roles # Undefined /\ Len(roles) > 0
            /\ ~HasRequiredRole(roles,
                    IF auth.user = <<>> THEN <<>> ELSE auth.user[1].roles)
    THEN Threw([ to |-> "/login",
                 search |-> [ returnUrl |-> location,
                              reason |-> "INSUFFICIENT_PERMISSIONS" ] ],
               <<"redirect">>)
    ELSE Returned(Undefined, <<>>)

\* The router calls the guard of a route.
InvokeProtectedBeforeLoad ==
    /\ request = NoRequest
    /\ \E r \in GuardRoles, a \in GuardContexts,
          h \in {href_dashboard, href_admin} :
          request' = [ op  |-> "protectedBeforeLoad",
                       arg |-> [roles |-> r, auth |-> a, href |-> h],
                       lib |-> "ok" ]
    /\ UNCHANGED <<env, now, outcome, browser, authnRequests, invocations, authProvider, keyboardNav, callbackPage, hookAuth, oidcAuth>>

RunProtectedBeforeLoad ==
    /\ request.op = "protectedBeforeLoad"
    /\ outcome.kind = "none"
    /\ outcome' = protectedBeforeLoad(request.arg.roles, request.arg.auth,
                                      request.arg.href)
    /\ UNCHANGED <<env, now, request, browser, authnRequests, invocations, authProvider, keyboardNav, callbackPage, hookAuth, oidcAuth>>

InitGuard ==
    /\ env = DevEnv
    /\ now = 0
    /\ request = NoRequest
    /\ outcome = NoOutcome
    /\ browser = NoBrowser
    /\ authnRequests = {}
    /\ invocations = NoCalls
    /\ authProvider = NoAuth
    /\ oidcAuth = NoOidcAuth
    /\ hookAuth = NoHookAuth
    /\ callbackPage = NoCallbackPage
    /\ keyboardNav = NoKeyboardNav

NextGuard ==
    \/ InvokeProtectedBeforeLoad
    \/ RunProtectedBeforeLoad
    \/ Complete

SpecGuard == InitGuard /\ [][NextGuard]_vars

-----------------------------------------------------------------------------
(* context/AuthProvider: the functions of the component.  Each takes the   *)
(* provider record and gives the record after the state updates and the    *)
(* storage writes it made.                                                 *)

\* SESSION_CONFIG, in minutes.
REFRESH_THRESHOLD == 5
MAX_IDLE_TIME == 30

\* The clock of the browser does not pass MaxClock.
MaxClock == 35

\* Refresh requests in flight at a time.
MaxPending == 1

\* Time passes in steps of these lengths.
Durations == {4, MAX_IDLE_TIME, MAX_IDLE_TIME + 1}

AuthUser == [id |-> "jdoe", roles |-> <<"student">>]

tok_0 == <<"saml-session-0">>
tok_1 == <<"access-1">>
ref_0 == <<"refresh-0">>
ref_1 == <<"refresh-1">>

\* What localStorage holds when the page loads: nothing, or what an earlier
\* page load left.
StoredStates ==
    {EmptyStorage} \cup
    [ session      : { <<x>> : x \in [ token        : {tok_0},
                                       refreshToken : {EmptyStr, ref_0},
                                       expiresAt    : {0, 4, 60},
                                       user         : {AuthUser} ] },
      user         : {<<AuthUser>>},
      lastActivity : {<<0>>, <<0 - (MAX_IDLE_TIME + 1)>>} ]

\* The sessions handed to updateSession: the one the SAML callback page
\* builds, and one with a refresh token.
NewSessions(clock) ==
    { [ token |-> tok_0, refreshToken |-> EmptyStr,
        expiresAt |-> clock + 30, user |-> AuthUser ],
      [ token |-> tok_0, refreshToken |-> ref_0,
        expiresAt |-> clock + 8, user |-> AuthUser ] }

\* How the fetch of /api/auth/refresh settles.
RefreshResponses(clock) ==
    { [ kind |-> "ok",
        data |-> [token |-> tok_1, refreshToken |-> ref_1,
                  expiresAt |-> clock + 60] ],
      [ kind |-> "notOk", data |-> <<>> ],
      [ kind |-> "networkError", data |-> <<>> ] }

MountState(storage) == [NoAuth EXCEPT !.storage = storage]

createAuthError(code, message) == [code |-> Str(code), message |-> Str(message)]

isSessionValid(sessionData, clock) == sessionData.expiresAt > clock

needsRefresh(sessionData, clock) ==
    sessionData.expiresAt - clock < REFRESH_THRESHOLD

updateLastActivity(a, clock) == [a EXCEPT !.storage.lastActivity = <<clock>>]

checkIdleTimeout(a, clock) ==
    /\ a.storage.lastActivity # <<>>
    /\ clock - a.storage.lastActivity[1] > MAX_IDLE_TIME

\* setSession(s): s is null or an object made for this call, so that the
\* next render sees another session unless null replaces null.
setSession(a, s) ==
    [a EXCEPT !.session = s,
              !.restoreDue = IF s # <<>> \/ a.session # <<>>
                             THEN "due" ELSE a.restoreDue]

\* clearAuthData that leaves the localStorage entries in place.
clearAuthData_StateOnly(a) ==
    [setSession(a, <<>>) EXCEPT !.user = <<>>]

clearAuthData(a) ==
    [setSession(a, <<>>) EXCEPT !.user = <<>>, !.storage = EmptyStorage]

\* refreshSession, catch and finally.  What the try block throws is an
\* object of createAuthError or an Error without a code, so that the catch
\* block always builds its own AuthError.
RefreshFailure(a) ==
    [clearAuthData([a EXCEPT !.error =
           <<createAuthError("REFRESH_TOKEN_INVALID", "Session refresh failed")>>])
        EXCEPT !.isLoading = FALSE]

\* restoreSession, catch and finally: the same for what it catches.
RestoreFailure(a) ==
    [clearAuthData([a EXCEPT !.error =
           <<createAuthError("UNKNOWN_ERROR", "Failed to restore session")>>])
        EXCEPT !.isLoading = FALSE]

\* refreshSession up to its await, called by `caller` from a closure that
\* captured `captured` as session.
HasRefreshToken_AnySession(captured) == captured # <<>>

HasRefreshToken(captured) ==
    captured # <<>> /\ Truthy(captured[1].refreshToken)

BeginRefresh(a, captured, caller) ==
    IF ~HasRefreshToken(captured)
    THEN RefreshFailure(a)
    ELSE [a EXCEPT !.isLoading = TRUE,
                   !.error = <<>>,
                   !.pending = @ \cup
                       {[ refreshToken |-> captured[1].refreshToken,
                          user         |-> captured[1].user,
                          caller       |-> caller ]}]

\* refreshSession from the settling of its fetch, and then the rest of the
\* caller that awaited it.
FinishRefresh(a, p, response, clock) ==
    LET rest == [a EXCEPT !.pending = @ \ {p}]
    IN  IF response.kind = "ok"
        THEN LET \* {...session, token, refreshToken, expiresAt}
                 updatedSession ==
                     [ token        |-> response.data.token,
                       refreshToken |-> response.data.refreshToken,
                       expiresAt    |-> response.data.expiresAt,
                       user         |-> p.user ]
             IN  [setSession(rest, <<updatedSession>>) EXCEPT
                     !.storage.session = <<updatedSession>>,
                     !.storage.lastActivity = <<clock>>,
                     !.isLoading = FALSE]
        ELSE IF p.caller = "restoreSession"
        THEN RestoreFailure(RefreshFailure(rest))
        ELSE RefreshFailure(rest)

\* restoreSession up to its await (or to its end).  `captured` is the
\* session of the render that made this restoreSession and the
\* refreshSession it calls.
restoreSession(a, captured, clock) ==
    LET loading == [a EXCEPT !.isLoading = TRUE]
    IN  IF checkIdleTimeout(a, clock)
        THEN RestoreFailure(loading)
        ELSE IF a.storage.session = <<>> \/ a.storage.user = <<>>
        THEN [loading EXCEPT !.isLoading = FALSE]
        ELSE LET sessionWithDates ==
                     [a.storage.session[1] EXCEPT !.user = a.storage.user[1]]
                 restored ==
                     updateLastActivity(
                         [setSession(loading, <<sessionWithDates>>)
                             EXCEPT !.user = <<sessionWithDates.user>>],
                         clock)
             IN  IF ~isSessionValid(sessionWithDates, clock)
                 THEN RestoreFailure(loading)
                 ELSE IF ~needsRefresh(sessionWithDates, clock)
                 THEN [restored EXCEPT !.isLoading = FALSE]
                 ELSE IF HasRefreshToken(captured)
                 THEN BeginRefresh(restored, captured, "restoreSession")
                 ELSE RestoreFailure(BeginRefresh(restored, captured,
                                                  "restoreSession"))

checkSession(a, clock) ==
    IF a.session = <<>> \/ a.isLoading
    THEN a
    ELSE IF checkIdleTimeout(a, clock)
    THEN clearAuthData([a EXCEPT !.error =
             <<createAuthError("SESSION_EXPIRED",
                               "Session expired due to inactivity")>>])
    ELSE IF ~isSessionValid(a.session[1], clock)
    THEN clearAuthData([a EXCEPT !.error =
             <<createAuthError("SESSION_EXPIRED",
                               "Your session has expired. Please log in again.")>>])
    ELSE IF needsRefresh(a.session[1], clock)
    THEN BeginRefresh(a, a.session, "checkSession")
    ELSE a

updateSession(a, newSession, clock) ==
    [setSession(a, <<newSession>>) EXCEPT
        !.user = <<newSession.user>>,
        !.storage = [ session      |-> <<newSession>>,
                      user         |-> <<newSession.user>>,
                      lastActivity |-> <<clock>> ],
        !.error = <<>>]

logout(a) == [clearAuthData([a EXCEPT !.error = <<>>]) EXCEPT !.isLoading = FALSE]

\* login assigns window.location.href: the page is left for the identity
\* provider, and the application mounts anew when the browser comes back.
login(a) == [MountState(a.storage) EXCEPT !.tick = a.tick]

\* contextValue.isAuthenticated
isAuthenticated(a) == a.user # <<>> /\ a.session # <<>>

-----------------------------------------------------------------------------
(* The AuthProvider in a browser (specification SpecAuth): its effects,    *)
(* its timer, the events of the user, the calls of the components that     *)
(* consume the context, and the refresh endpoint.  A step is one task of   *)
(* the event loop together with the render it causes; the effect on        *)
(* [restoreSession] is a step of its own.                                  *)

\* The observations of the record, after `event` took a to b.
Observed(a, b, clock, event) ==
    [b EXCEPT
        !.quietSince = IF b.session = <<>> THEN 0
                       ELSE IF event \in {"activity", "updateSession"}
                               \/ a.session = <<>>
                       THEN clock
                       ELSE a.quietSince,
        !.event = IF event = "login" THEN "mount" ELSE event,
        !.loggedOut = IF event = "logout" THEN TRUE
                      ELSE IF event \in {"login", "updateSession"} THEN FALSE
                      ELSE a.loggedOut]

\* Time passes, once the effects of the last render have run.
Elapse ==
    /\ authProvider.restoreDue # "due"
    /\ \E d \in Durations : now + d <= MaxClock /\ now' = now + d
    /\ UNCHANGED <<env, request, outcome, browser, authnRequests, invocations,
                   authProvider, keyboardNav, callbackPage, hookAuth, oidcAuth>>

\* useEffect(() => { restoreSession(); }, [restoreSession])
RestoreEffect ==
    /\ authProvider.restoreDue # "no"
    /\ \/ Cardinality(authProvider.pending) < MaxPending
       \/ ~HasRefreshToken(authProvider.session)
    /\ LET ran == restoreSession([authProvider EXCEPT !.restoreDue = "no"],
                                 authProvider.session, now)
       IN  authProvider' =
               Observed(authProvider,
                        [ran EXCEPT !.restoreDue =
                            IF @ = "due" /\ ran.session # <<>>
                            THEN "again" ELSE @],
                        now, "restore")
    /\ UNCHANGED <<env, now, request, outcome, browser, authnRequests, invocations, keyboardNav, callbackPage, hookAuth, oidcAuth>>

\* setInterval(() => { checkSession(); }, CHECK_INTERVAL)
CheckSessionTimer ==
    /\ \/ Cardinality(authProvider.pending) < MaxPending
       \/ ~HasRefreshToken(authProvider.session)
    /\ authProvider' =
          Observed(authProvider,
                   [checkSession(authProvider, now) EXCEPT !.tick = ~@],
                   now, "check")
    /\ UNCHANGED <<env, now, request, outcome, browser, authnRequests, invocations, keyboardNav, callbackPage, hookAuth, oidcAuth>>

\* mousedown, keydown, scroll, touchstart, listened to while a session is held
UserActivity ==
    /\ authProvider.session # <<>>
    /\ authProvider' =
          Observed(authProvider, updateLastActivity(authProvider, now),
                   now, "activity")
    /\ UNCHANGED <<env, now, request, outcome, browser, authnRequests, invocations, keyboardNav, callbackPage, hookAuth, oidcAuth>>

CallUpdateSession ==
    /\ \E s \in NewSessions(now) :
          authProvider' =
              Observed(authProvider, updateSession(authProvider, s, now),
                       now, "updateSession")
    /\ UNCHANGED <<env, now, request, outcome, browser, authnRequests, invocations, keyboardNav, callbackPage, hookAuth, oidcAuth>>

CallLogout ==
    /\ authProvider' = Observed(authProvider, logout(authProvider), now, "logout")
    /\ UNCHANGED <<env, now, request, outcome, browser, authnRequests, invocations, keyboardNav, callbackPage, hookAuth, oidcAuth>>

CallLogin ==
    /\ authProvider' = Observed(authProvider, login(authProvider), now, "login")
    /\ UNCHANGED <<env, now, request, outcome, browser, authnRequests, invocations, keyboardNav, callbackPage, hookAuth, oidcAuth>>

CallClearError ==
    /\ authProvider.error # <<>>
    /\ authProvider' = [authProvider EXCEPT !.error = <<>>]
    /\ UNCHANGED <<env, now, request, outcome, browser, authnRequests, invocations, keyboardNav, callbackPage, hookAuth, oidcAuth>>

\* A component calls refreshSession of the context and awaits it.
InvokeRefreshSession ==
    /\ request = NoRequest
    /\ \/ Cardinality(authProvider.pending) < MaxPending
       \/ ~HasRefreshToken(authProvider.session)
    /\ request' = [op |-> "refreshSession", arg |-> <<>>, lib |-> "ok"]
    /\ authProvider' =
          Observed(authProvider,
                   BeginRefresh(authProvider, authProvider.session, "consumer"),
                   now, "refresh")
    /\ outcome' = IF HasRefreshToken(authProvider.session)
                  THEN NoOutcome
                  ELSE Threw(authProvider'.error[1], <<"createAuthError">>)
    /\ UNCHANGED <<env, now, browser, authnRequests, invocations, keyboardNav, callbackPage, hookAuth, oidcAuth>>

\* The fetch of a refresh in flight settles.
SettleRefresh ==
    \E p \in authProvider.pending, r \in RefreshResponses(now) :
        /\ authProvider' =
              Observed(authProvider, FinishRefresh(authProvider, p, r, now),
                       now, "refresh")
        /\ outcome' = IF p.caller # "consumer" THEN outcome
                      ELSE IF r.kind = "ok"
                      THEN Returned(r.data, <<"fetch">>)
                      ELSE Threw(authProvider'.error[1], <<"fetch">>)
        /\ UNCHANGED <<env, now, request, browser, authnRequests, invocations, keyboardNav, callbackPage, hookAuth, oidcAuth>>

InitAuth ==
    /\ env = DevEnv
    /\ now = 0
    /\ request = NoRequest
    /\ outcome = NoOutcome
    /\ browser = NoBrowser
    /\ authnRequests = {}
    /\ invocations = NoCalls
    /\ authProvider \in { MountState(s) : s \in StoredStates }
    /\ oidcAuth = NoOidcAuth
    /\ hookAuth = NoHookAuth
    /\ callbackPage = NoCallbackPage
    /\ keyboardNav = NoKeyboardNav

NextAuth ==
    \/ Elapse
    \/ RestoreEffect
    \/ CheckSessionTimer
    \/ UserActivity
    \/ CallUpdateSession
    \/ CallLogout
    \/ CallLogin
    \/ CallClearError
    \/ InvokeRefreshSession
    \/ SettleRefresh
    \/ Complete

SpecAuth == InitAuth /\ [][NextAuth]_vars

-----------------------------------------------------------------------------
(* hooks/useKeyboardNav: arrow-key navigation in a list (specification     *)
(* SpecKeys).  A component renders a list of itemCount items with the      *)
(* hook; the user presses keys, focuses items, and the list changes.       *)

MaxItems == 3

Orientations == {"vertical", "horizontal", "both"}

Keys == { "ArrowUp", "ArrowDown", "ArrowLeft", "ArrowRight", "Home", "End",
          "Enter", " ", "Tab" }

Min(a, b) == IF a < b THEN a ELSE b
Max(a, b) == IF a > b THEN a ELSE b

\* The index moveFocus sets for newIndex.
moveFocus_ClampOnly(k, newIndex) == Max(0, Min(k.itemCount - 1, newIndex))

moveFocus(k, newIndex) ==
    IF k.circular
    THEN IF newIndex < 0 THEN k.itemCount - 1
         ELSE IF newIndex >= k.itemCount THEN 0
         ELSE newIndex
    ELSE Max(0, Min(k.itemCount - 1, newIndex))

\* handleKeyDown for one key event: its if statements in order, each
\* reading focusedIndex of the render the handler belongs to.
handleKeyDown(k, key) ==
    LET shouldHandleVertical == k.orientation \in {"vertical", "both"}
        shouldHandleHorizontal == k.orientation \in {"horizontal", "both"}
        up == \/ key = "ArrowUp" /\ shouldHandleVertical
              \/ key = "ArrowLeft" /\ shouldHandleHorizontal
        down == \/ key = "ArrowDown" /\ shouldHandleVertical
                \/ key = "ArrowRight" /\ shouldHandleHorizontal
        select == /\ key \in {"Enter", " "}
                  /\ k.focusedIndex >= 0
                  /\ k.focusedIndex < k.itemCount
    IN  [k EXCEPT
            !.focusedIndex =
                IF up THEN moveFocus(k, k.focusedIndex - 1)
                ELSE IF down THEN moveFocus(k, k.focusedIndex + 1)
                ELSE IF key = "Home" THEN moveFocus(k, 0)
                ELSE IF key = "End" THEN moveFocus(k, k.itemCount - 1)
                ELSE @,
            !.key = key,
            !.handled = up \/ down \/ key \in {"Home", "End"} \/ select,
            !.selected = IF select THEN <<k.focusedIndex>> ELSE <<>>,
            !.tick = ~@]

\* A component mounts with the hook: useState(initialIndex).
MountList ==
    /\ keyboardNav = NoKeyboardNav
    /\ \E n \in 0..MaxItems, i \in (0 - 1)..MaxItems, c \in BOOLEAN, o \in Orientations :
          keyboardNav' = [NoKeyboardNav EXCEPT !.itemCount = n, !.focusedIndex = i,
                                               !.circular = c, !.orientation = o,
                                               !.key = "mount"]
    /\ UNCHANGED <<env, now, request, outcome, browser, authnRequests, invocations,
                   authProvider, callbackPage, hookAuth, oidcAuth>>

\* onKeyDown={handleKeyDown}
KeyDown ==
    /\ keyboardNav.key # "none"
    /\ \E key \in Keys : keyboardNav' = handleKeyDown(keyboardNav, key)
    /\ UNCHANGED <<env, now, request, outcome, browser, authnRequests, invocations,
                   authProvider, callbackPage, hookAuth, oidcAuth>>

\* getItemProps(index).onFocus of a rendered item.
FocusItem ==
    /\ keyboardNav.key # "none"
    /\ \E index \in 0..(keyboardNav.itemCount - 1) :
          /\ index # keyboardNav.focusedIndex
          /\ keyboardNav' = [keyboardNav EXCEPT !.focusedIndex = index,
                                                 !.key = "focus", !.handled = FALSE,
                                                 !.selected = <<>>]
    /\ UNCHANGED <<env, now, request, outcome, browser, authnRequests, invocations,
                   authProvider, callbackPage, hookAuth, oidcAuth>>

\* The component calls the setFocusedIndex the hook returned (moveFocus).
CallSetFocusedIndex ==
    /\ keyboardNav.key # "none"
    /\ \E index \in (0 - 2)..(MaxItems + 1) :
          keyboardNav' = [keyboardNav EXCEPT
                             !.focusedIndex = moveFocus(keyboardNav, index),
                             !.key = "set", !.handled = FALSE, !.selected = <<>>]
    /\ UNCHANGED <<env, now, request, outcome, browser, authnRequests, invocations,
                   authProvider, callbackPage, hookAuth, oidcAuth>>

\* The list is rendered with another number of items.
ChangeItemCount ==
    /\ keyboardNav.key # "none"
    /\ \E n \in 0..MaxItems :
          /\ n # keyboardNav.itemCount
          /\ keyboardNav' = [keyboardNav EXCEPT !.itemCount = n, !.key = "render",
                                                 !.handled = FALSE, !.selected = <<>>]
    /\ UNCHANGED <<env, now, request, outcome, browser, authnRequests, invocations,
                   authProvider, callbackPage, hookAuth, oidcAuth>>

InitKeys ==
    /\ env = DevEnv
    /\ now = 0
    /\ request = NoRequest
    /\ outcome = NoOutcome
    /\ browser = NoBrowser
    /\ authnRequests = {}
    /\ invocations = NoCalls
    /\ authProvider = NoAuth
    /\ oidcAuth = NoOidcAuth
    /\ hookAuth = NoHookAuth
    /\ callbackPage = NoCallbackPage
    /\ keyboardNav = NoKeyboardNav

NextKeys ==
    \/ MountList
    \/ KeyDown
    \/ FocusItem
    \/ CallSetFocusedIndex
    \/ ChangeItemCount

SpecKeys == InitKeys /\ [][NextKeys]_vars

-----------------------------------------------------------------------------
(* routes/auth/saml/callback and routes/auth/callback as mounted           *)
(* components (specification SpecMount): the effect of a page runs after   *)
(* it mounts and again whenever a render changes one of its dependencies.  *)

MaxRuns == 3
MaxMounts == 2

\* The searches a SAML callback page is opened with.
PageSearches ==
    { useSearch(location) : location \in ForgedLocations }
    \cup { [NoSearch EXCEPT !.error = "server_error"], NoSearch }

\* if (processedRef.current) return;
AlreadyProcessed_Never(page) == FALSE

AlreadyProcessed(page) == page.processedRef

\* The effect of SAMLCallbackPage.
SAMLCallbackEffect(page, clock) ==
    IF AlreadyProcessed(page)
    THEN page
    ELSE LET done == processCallback(page.search, clock)
             called == IF done.session # NoSession THEN 1 ELSE 0
         IN  [page EXCEPT !.processedRef = TRUE,
                          !.calls = @ + called,
                          !.total = @ + called,
                          !.error = done.error,
                          !.to = <<done.to>>]

\* The effect of AuthCallbackPage.
AuthCallbackEffect(page) ==
    IF AlreadyProcessed(page)
    THEN page
    ELSE [page EXCEPT !.processedRef = TRUE, !.calls = @ + 1, !.total = @ + 1,
                      !.pending = TRUE]

MountCallbackPage ==
    /\ callbackPage.route = "none"
    /\ callbackPage.mounts < MaxMounts
    /\ LET mounted == [callbackPage EXCEPT !.mounts = @ + 1, !.effectDue = TRUE]
       IN  \/ \E search \in PageSearches :
                callbackPage' = [mounted EXCEPT !.route = "saml", !.search = search]
           \/ callbackPage' = [mounted EXCEPT !.route = "oidc"]
    /\ UNCHANGED <<env, now, request, outcome, browser, authnRequests, invocations,
                   authProvider, keyboardNav, hookAuth, oidcAuth>>

\* useEffect(() => {...}, [navigate, updateSession, search]) and
\* useEffect(() => {...}, [handleLoginCallback, navigate])
RunCallbackEffect ==
    /\ callbackPage.effectDue
    /\ LET ran == IF callbackPage.route = "saml"
                  THEN SAMLCallbackEffect(callbackPage, now)
                  ELSE AuthCallbackEffect(callbackPage)
       IN  callbackPage' = [ran EXCEPT !.effectDue = FALSE, !.runs = @ + 1]
    /\ UNCHANGED <<env, now, request, outcome, browser, authnRequests, invocations,
                   authProvider, keyboardNav, hookAuth, oidcAuth>>

\* A render gives the page a new updateSession, handleLoginCallback,
\* navigate or search object, or React runs the effects of the mounted
\* page once more (StrictMode): refs and state are kept.
RerenderCallbackPage ==
    /\ callbackPage.route # "none"
    /\ ~callbackPage.effectDue
    /\ callbackPage.runs < MaxRuns
    /\ callbackPage' = [callbackPage EXCEPT !.effectDue = TRUE]
    /\ UNCHANGED <<env, now, request, outcome, browser, authnRequests, invocations,
                   authProvider, keyboardNav, hookAuth, oidcAuth>>

\* handleLoginCallback() settles: .then navigates to '/', .catch to '/login'.
SettleLoginCallback ==
    /\ callbackPage.pending
    /\ \E to \in {path_root, path_login} :
          callbackPage' = [callbackPage EXCEPT !.pending = FALSE, !.to = <<to>>]
    /\ UNCHANGED <<env, now, request, outcome, browser, authnRequests, invocations,
                   authProvider, keyboardNav, hookAuth, oidcAuth>>

\* The navigation the page asked for takes place, or the user leaves: the
\* page unmounts.
UnmountCallbackPage ==
    /\ callbackPage.route # "none"
    /\ callbackPage' = [NoCallbackPage EXCEPT !.mounts = callbackPage.mounts,
                                              !.total = callbackPage.total]
    /\ UNCHANGED <<env, now, request, outcome, browser, authnRequests, invocations,
                   authProvider, keyboardNav, hookAuth, oidcAuth>>

InitMount ==
    /\ env = DevEnv
    /\ now = 0
    /\ request = NoRequest
    /\ outcome = NoOutcome
    /\ browser = NoBrowser
    /\ authnRequests = {}
    /\ invocations = NoCalls
    /\ authProvider = NoAuth
    /\ oidcAuth = NoOidcAuth
    /\ hookAuth = NoHookAuth
    /\ keyboardNav = NoKeyboardNav
    /\ callbackPage = NoCallbackPage

NextMount ==
    \/ MountCallbackPage
    \/ RunCallbackEffect
    \/ RerenderCallbackPage
    \/ SettleLoginCallback
    \/ UnmountCallbackPage

SpecMount == InitMount /\ [][NextMount]_vars

-----------------------------------------------------------------------------
(* The AuthProvider of src/libs/auth/src/hooks/useAuth.tsx (specification
   SpecLoading, with the other two providers).

   The provider keeps one state object and every update is a functional
   setState, so a callback never works on a stale copy.  mockLogin and
   mockRefreshSession wait on a setTimeout (400 ms and 300 ms, below the
   resolution of the clock here); the two halves of each are separate steps
   and anything may happen in between.  realLogin assigns
   window.location.href: the page is left and the application is loaded
   again, with what localStorage holds. *)

\* The mock session lasts one hour.
MOCK_SESSION_LIFETIME == 60

MockUser == "mock-user-id-123"

\* What the two localStorage entries hold when the page loads: nothing, text
\* that JSON.parse rejects, or what persistSession wrote during an earlier
\* page load.
HookStoredStates ==
    {<<>>} \cup
    { <<[corrupt |-> c, user |-> MockUser, expiresAt |-> e]>> :
          c \in BOOLEAN, e \in {0, 20, MOCK_SESSION_LIFETIME} }

HookMountState(storage, useMock) ==
    [NoHookAuth EXCEPT !.mounted = TRUE, !.useMock = useMock,
                       !.storage = storage, !.checkDue = TRUE]

buildError(code) == <<code>>

\* What localStorage holds after persistSession(session, user).
persistSession(session, user) ==
    IF session = <<>> \/ user = <<>>
    THEN <<>>
    ELSE <<[corrupt |-> FALSE, user |-> user[1],
            expiresAt |-> session[1].expiresAt]>>

\* restoreSession(): the session and user rebuilt from localStorage (the
\* tokens are placeholders), and what localStorage holds afterwards.
useAuth_restoreSession(storage) ==
    IF storage = <<>>
    THEN [session |-> <<>>, user |-> <<>>, storage |-> storage]
    ELSE IF storage[1].corrupt
    THEN [session |-> <<>>, user |-> <<>>,
          storage |-> persistSession(<<>>, <<>>)]
    ELSE [session |-> <<[user |-> storage[1].user,
                         token |-> "mock_access_token",
                         expiresAt |-> storage[1].expiresAt]>>,
          user |-> <<storage[1].user>>,
          storage |-> storage]

\* mockLogin after its timer fired.
mockLogin(h, clock) ==
    LET user == <<MockUser>>
        session == <<[user |-> MockUser, token |-> "mock_access_token",
                      expiresAt |-> clock + MOCK_SESSION_LIFETIME]>>
    IN  [h EXCEPT !.storage = persistSession(session, user),
                  !.user = user, !.session = session,
                  !.isAuthenticated = TRUE, !.isLoading = FALSE,
                  !.error = <<>>]

\* mockRefreshSession after its timer fired.
mockRefreshSession(h, clock) ==
    IF h.session = <<>> \/ h.user = <<>>
    THEN [h EXCEPT !.isLoading = FALSE,
                   !.error = buildError("SESSION_EXPIRED")]
    ELSE LET updatedSession ==
                 <<[h.session[1] EXCEPT
                        !.expiresAt = clock + MOCK_SESSION_LIFETIME]>>
         IN  [h EXCEPT !.storage = persistSession(updatedSession, h.user),
                       !.session = updatedSession,
                       !.isAuthenticated = TRUE, !.isLoading = FALSE,
                       !.error = <<>>]

realRefreshSession_StillLoading(h) ==
    [h EXCEPT !.isLoading = TRUE, !.error = buildError("UNKNOWN_ERROR")]

realRefreshSession(h) ==
    [h EXCEPT !.isLoading = FALSE, !.error = buildError("UNKNOWN_ERROR")]

\* refreshSession up to its first await.
useAuth_refreshSession(h) ==
    IF h.useMock
    THEN [h EXCEPT !.isLoading = TRUE, !.timers.refresh = @ + 1]
    ELSE realRefreshSession(h)

useAuth_logout(h) ==
    [h EXCEPT !.storage = persistSession(<<>>, <<>>),
              !.user = <<>>, !.session = <<>>, !.isAuthenticated = FALSE,
              !.isLoading = FALSE, !.error = <<>>]

\* checkSession up to its first await.
useAuth_checkSession(h, clock) ==
    LET restored == useAuth_restoreSession(h.storage)
        loading  == [h EXCEPT !.isLoading = TRUE,
                              !.storage = restored.storage]
    IN  IF restored.session = <<>> \/ restored.user = <<>>
        THEN [loading EXCEPT !.user = <<>>, !.session = <<>>,
                             !.isAuthenticated = FALSE, !.isLoading = FALSE]
        ELSE IF restored.session[1].expiresAt <= clock
        THEN useAuth_refreshSession(loading)
        ELSE [loading EXCEPT !.user = restored.user,
                             !.session = restored.session,
                             !.isAuthenticated = TRUE, !.isLoading = FALSE,
                             !.error = <<>>]

OthersUnchangedByHook ==
    UNCHANGED <<env, request, outcome, browser, authnRequests, invocations,
                authProvider, keyboardNav, callbackPage, oidcAuth>>

\* The effect that runs once after the provider is mounted.
HookMountEffect ==
    /\ hookAuth.mounted
    /\ hookAuth.checkDue
    /\ hookAuth' = [useAuth_checkSession(hookAuth, now)
                        EXCEPT !.checkDue = FALSE]
    /\ now' = now
    /\ OthersUnchangedByHook

\* A component calls checkSession.
HookCallCheckSession ==
    /\ hookAuth.mounted
    /\ hookAuth.timers.refresh < MaxPending
    /\ hookAuth' = useAuth_checkSession(hookAuth, now)
    /\ now' = now
    /\ OthersUnchangedByHook

\* A component calls login: the mock starts its timer, the real one leaves
\* the page.
HookCallLogin ==
    /\ hookAuth.mounted
    /\ IF hookAuth.useMock
       THEN /\ hookAuth.timers.login < MaxPending
            /\ hookAuth' = [hookAuth EXCEPT !.isLoading = TRUE,
                                            !.error = <<>>,
                                            !.timers.login = @ + 1]
       ELSE hookAuth' = HookMountState(hookAuth.storage, hookAuth.useMock)
    /\ now' = now
    /\ OthersUnchangedByHook

HookLoginTimer ==
    /\ hookAuth.mounted
    /\ hookAuth.timers.login > 0
    /\ hookAuth' = [mockLogin(hookAuth, now) EXCEPT !.timers.login = @ - 1]
    /\ now' = now
    /\ OthersUnchangedByHook

HookCallLogout ==
    /\ hookAuth.mounted
    /\ hookAuth' = useAuth_logout(hookAuth)
    /\ now' = now
    /\ OthersUnchangedByHook

HookCallRefreshSession ==
    /\ hookAuth.mounted
    /\ hookAuth.timers.refresh < MaxPending
    /\ hookAuth' = useAuth_refreshSession(hookAuth)
    /\ now' = now
    /\ OthersUnchangedByHook

HookRefreshTimer ==
    /\ hookAuth.mounted
    /\ hookAuth.timers.refresh > 0
    /\ hookAuth' = [mockRefreshSession(hookAuth, now)
                        EXCEPT !.timers.refresh = @ - 1]
    /\ now' = now
    /\ OthersUnchangedByHook

\* Time passes in the browser.
HookElapse ==
    /\ hookAuth.mounted
    /\ \E d \in {1, 20} :
          /\ now + d <= MaxClock
          /\ now' = now + d
    /\ UNCHANGED hookAuth
    /\ OthersUnchangedByHook

NextHook ==
    \/ HookMountEffect
    \/ HookCallCheckSession
    \/ HookCallLogin
    \/ HookLoginTimer
    \/ HookCallLogout
    \/ HookCallRefreshSession
    \/ HookRefreshTimer
    \/ HookElapse

-----------------------------------------------------------------------------
(* The AuthProvider of src/unnamed/part_007, built on the UserManager of
   oidc-client-ts (specification SpecLoading).

   The provider runs in a browser, so the UserManager exists and its props
   (authority, clientId, redirectUri) are those of the page load.  What the
   library does is taken from its contract: getUser resolves with the stored
   user or null, a successful signinRedirectCallback or signinSilent stores
   the user and raises userLoaded, removeUser empties the store and raises
   userUnloaded, signinRedirect and signoutRedirect leave the page.  React
   runs the effect of a commit before any promise of the UserManager
   settles, so a call settles and an event arrives only while the handlers
   are registered.  When signinRedirect or signoutRedirect succeeds the
   browser leaves the application: the provider and its state are gone
   until the application is loaded again. *)

\* The users the UserManager may hold or obtain; expires_at in minutes.
OidcUsers == [sub : {"jdoe"}, expires_at : {0, 60}]

\* OidcUser.expired, as the library computes it from expires_at.
expired(oidcUser, clock) == oidcUser.expires_at <= clock

OidcMountState(store) ==
    [NoOidcAuth EXCEPT !.mounted = TRUE, !.store = store, !.effectDue = TRUE]

\* The browser is showing the identity provider; the store is kept.
OidcAway(store) ==
    [NoOidcAuth EXCEPT !.mounted = TRUE, !.away = TRUE, !.store = store]

OidcLive == oidcAuth.mounted /\ ~oidcAuth.away

mapOidcUserToSession(oidcUser) ==
    [user |-> oidcUser.sub, expiresAt |-> oidcUser.expires_at]

onUserLoaded(o, oidcUser) ==
    LET session == mapOidcUserToSession(oidcUser)
    IN  [o EXCEPT !.user = <<session.user>>, !.session = <<session>>,
                  !.isAuthenticated = TRUE, !.isLoading = FALSE,
                  !.error = <<>>]

onUserUnloaded(o) ==
    [o EXCEPT !.user = <<>>, !.session = <<>>,
              !.isAuthenticated = FALSE, !.isLoading = FALSE]

OthersUnchangedByOidc ==
    UNCHANGED <<env, now, request, outcome, browser, authnRequests,
                invocations, authProvider, keyboardNav, callbackPage,
                hookAuth>>

\* The effect: it registers the handlers and calls getUser.  It runs after
\* the mount and again whenever onSessionRestored or onSessionRestoreFailed
\* is a new function.
OidcEffect ==
    /\ OidcLive
    /\ oidcAuth.effectDue
    /\ oidcAuth.pending.getUser < MaxPending
    /\ oidcAuth' = [oidcAuth EXCEPT !.effectDue = FALSE, !.listening = TRUE,
                                    !.pending.getUser = @ + 1]
    /\ OthersUnchangedByOidc

\* The parent renders the provider with new callback props.
OidcRerender ==
    /\ OidcLive
    /\ oidcAuth.listening
    /\ ~oidcAuth.effectDue
    /\ oidcAuth.pending.getUser < MaxPending
    /\ oidcAuth' = [oidcAuth EXCEPT !.effectDue = TRUE]
    /\ OthersUnchangedByOidc

\* getUser() of the initial load settles.
OidcGetUserSettles ==
    /\ oidcAuth.listening
    /\ oidcAuth.pending.getUser > 0
    /\ \E rejects \in BOOLEAN :
          LET settled == [oidcAuth EXCEPT !.pending.getUser = @ - 1]
          IN  oidcAuth' =
                  IF /\ ~rejects
                     /\ oidcAuth.store # <<>>
                     /\ ~expired(oidcAuth.store[1], now)
                  THEN onUserLoaded(settled, oidcAuth.store[1])
                  ELSE [settled EXCEPT !.isLoading = FALSE]
    /\ OthersUnchangedByOidc

\* login: signinRedirect leaves the page, or fails.
OidcCallLogin ==
    /\ OidcLive
    /\ \E fails \in BOOLEAN :
          oidcAuth' =
              IF fails
              THEN [oidcAuth EXCEPT !.error = <<"OAUTH_ERROR">>]
              ELSE OidcAway(oidcAuth.store)
    /\ OthersUnchangedByOidc

\* logout: signoutRedirect leaves the page; when it fails, removeUser.
OidcCallLogout ==
    /\ OidcLive
    /\ \E fails \in BOOLEAN :
          oidcAuth' =
              IF fails
              THEN LET removed == [oidcAuth EXCEPT !.store = <<>>]
                   IN  IF oidcAuth.listening
                       THEN onUserUnloaded(removed) ELSE removed
              ELSE OidcAway(<<>>)
    /\ OthersUnchangedByOidc

\* handleLoginCallback up to its await.
OidcCallHandleLoginCallback ==
    /\ OidcLive
    /\ oidcAuth.pending.signinRedirectCallback < MaxPending
    /\ oidcAuth' = [oidcAuth EXCEPT !.isLoading = TRUE,
                                    !.pending.signinRedirectCallback = @ + 1]
    /\ OthersUnchangedByOidc

\* signinRedirectCallback settles: with a user, whom the library stores and
\* announces by userLoaded, or with an error.
OidcCallbackSettles ==
    /\ oidcAuth.listening
    /\ oidcAuth.pending.signinRedirectCallback > 0
    /\ LET settled ==
               [oidcAuth EXCEPT !.pending.signinRedirectCallback = @ - 1]
       IN  \/ \E u \in OidcUsers :
                 oidcAuth' = onUserLoaded([settled EXCEPT !.store = <<u>>], u)
           \/ oidcAuth' = [settled EXCEPT !.isLoading = FALSE,
                                          !.error = <<"OAUTH_ERROR">>]
    /\ OthersUnchangedByOidc

\* An event of the UserManager: a silent renewal (automatic, or asked for by
\* refreshSession) ends, the user is unloaded or has signed out at the
\* identity provider.
OidcEvent ==
    /\ oidcAuth.listening
    /\ \/ /\ oidcAuth.store # <<>>
          /\ \E u \in OidcUsers :
                oidcAuth' = onUserLoaded([oidcAuth EXCEPT !.store = <<u>>], u)
       \/ oidcAuth' = onUserUnloaded([oidcAuth EXCEPT !.store = <<>>])
       \/ oidcAuth' = onUserUnloaded(oidcAuth)
       \/ /\ oidcAuth.store # <<>>
          /\ oidcAuth' = [oidcAuth EXCEPT !.error = <<"OIDC_ERROR">>]
    /\ OthersUnchangedByOidc

\* The identity provider sends the browser back and the application loads.
OidcPageLoads ==
    /\ oidcAuth.away
    /\ oidcAuth' = OidcMountState(oidcAuth.store)
    /\ OthersUnchangedByOidc

OidcCallUpdateSession ==
    /\ OidcLive
    /\ \E u \in OidcUsers :
          LET session == mapOidcUserToSession(u)
          IN  oidcAuth' = [oidcAuth EXCEPT !.session = <<session>>,
                                           !.user = <<session.user>>,
                                           !.isAuthenticated = TRUE]
    /\ OthersUnchangedByOidc

OidcCallClearError ==
    /\ OidcLive
    /\ oidcAuth' = [oidcAuth EXCEPT !.error = <<>>]
    /\ OthersUnchangedByOidc

NextOidc ==
    \/ OidcEffect
    \/ OidcRerender
    \/ OidcGetUserSettles
    \/ OidcCallLogin
    \/ OidcCallLogout
    \/ OidcCallHandleLoginCallback
    \/ OidcCallbackSettles
    \/ OidcEvent
    \/ OidcPageLoads
    \/ OidcCallUpdateSession
    \/ OidcCallClearError

-----------------------------------------------------------------------------
(* The three providers together: an application mounts one of them.  The
   fairness conditions say what the scheduling of the browser guarantees and
   what the claim about isLoading assumes: an effect that is due runs, a
   timer that was set fires, and an awaited call settles. *)

HookMounted == hookAuth.mounted
OidcMounted == oidcAuth.mounted
ContextMounted == ~HookMounted /\ ~OidcMounted

InitLoading ==
    /\ env = DevEnv
    /\ now = 0
    /\ request = NoRequest
    /\ outcome = NoOutcome
    /\ browser = NoBrowser
    /\ authnRequests = {}
    /\ invocations = NoCalls
    /\ callbackPage = NoCallbackPage
    /\ keyboardNav = NoKeyboardNav
    /\ \/ /\ authProvider \in { MountState(s) : s \in StoredStates }
          /\ hookAuth = NoHookAuth
          /\ oidcAuth = NoOidcAuth
       \/ /\ authProvider = NoAuth
          /\ hookAuth \in { HookMountState(s, m) :
                                s \in HookStoredStates, m \in BOOLEAN }
          /\ oidcAuth = NoOidcAuth
       \/ /\ authProvider = NoAuth
          /\ hookAuth = NoHookAuth
          /\ oidcAuth \in { OidcMountState(s) :
                                s \in {<<>>} \cup { <<u>> : u \in OidcUsers } }

NextLoading ==
    \/ ContextMounted /\ NextAuth
    \/ NextHook
    \/ NextOidc

SpecLoading ==
    /\ InitLoading
    /\ [][NextLoading]_vars
    /\ WF_vars(ContextMounted /\ RestoreEffect)
    /\ WF_vars(ContextMounted /\ SettleRefresh)
    /\ WF_vars(HookMountEffect)
    /\ WF_vars(HookLoginTimer)
    /\ WF_vars(HookRefreshTimer)
    /\ WF_vars(OidcEffect)
    /\ WF_vars(OidcGetUserSettles)
    /\ WF_vars(OidcCallbackSettles)

-----------------------------------------------------------------------------
(* Properties of response validation (specification Spec).                 *)

\* The response in flight decodes to a SAML document.
WellFormed(r) == r.kind = "blob" /\ r.decodable

\* The response's signature passes under the current configuration.
SignatureAccepted(r) ==
    ~Enforced(createSAMLStrategy(env)) \/ r.signature = "valid"

\* The assertion's time window holds at the current time.
InTimeWindow(r) == r.notBefore <= now /\ now < r.notOnOrAfter

\* The assertion's audience is the configured issuer.
AudienceMatches(r) == r.audience = getSAMLConfig(env).issuer

\* No user id can be derived from the attribute bag.
NoSubjectId(p) == ~Truthy(p.uid) /\ ~Truthy(p.oid_uid) /\ ~Truthy(p.nameID)

\* The call has resolved to a Failure with this error code.
FailedWith(code) ==
    /\ outcome.kind = "returned"
    /\ ~outcome.value.success
    /\ outcome.value.errorCode = code

Called(f) == \E i \in 1..Len(outcome.calls) : outcome.calls[i] = f

\* C1: with signature enforcement on (and an IdP certificate configured), a
\* response whose signature is missing or does not verify makes
\* validateSAMLResponse return a Failure with errorCode SAML_SIGNATURE_INVALID.
C1_SignatureInvalidCode ==
    ( /\ Done("validateSAMLResponse")
      /\ request.lib = "ok"
      /\ WellFormed(request.arg)
      /\ Enforced(createSAMLStrategy(env))
      /\ createSAMLStrategy(env).idpCert # EmptyStr
      /\ request.arg.signature \in {"invalid", "missing"} )
        => FailedWith("SAML_SIGNATURE_INVALID")

\* C2: a response whose assertion is expired or not yet valid makes
\* validateSAMLResponse return a Failure with errorCode SAML_ASSERTION_EXPIRED.
C2_AssertionExpiredCode ==
    ( /\ Done("validateSAMLResponse")
      /\ request.lib = "ok"
      /\ WellFormed(request.arg)
      /\ SignatureAccepted(request.arg)
      /\ ~InTimeWindow(request.arg) )
        => FailedWith("SAML_ASSERTION_EXPIRED")

\* C3: a response whose assertion audience is not the configured issuer
\* makes validateSAMLResponse return a Failure with errorCode
\* SAML_AUDIENCE_MISMATCH.
C3_AudienceMismatchCode ==
    ( /\ Done("validateSAMLResponse")
      /\ request.lib = "ok"
      /\ WellFormed(request.arg)
      /\ SignatureAccepted(request.arg)
      /\ InTimeWindow(request.arg)
      /\ ~AudienceMatches(request.arg) )
        => FailedWith("SAML_AUDIENCE_MISMATCH")

\* C4: validateSAMLResponse never returns Success with an empty or undefined
\* user id, and a verified profile with no uid attribute, no uid OID
\* attribute and no nameID yields a Failure with errorCode
\* SAML_MISSING_ATTRIBUTES.
C4_SuccessHasSubjectId ==
    Done("validateSAMLResponse") =>
        /\ (outcome.kind = "returned" /\ outcome.value.success)
              => Truthy(outcome.value.user.id)
        /\ ( /\ request.lib = "ok"
             /\ WellFormed(request.arg)
             /\ SignatureAccepted(request.arg)
             /\ InTimeWindow(request.arg)
             /\ AudienceMatches(request.arg)
             /\ request.arg.profile # NullProfile
             /\ NoSubjectId(request.arg.profile) )
              => FailedWith("SAML_MISSING_ATTRIBUTES")

\* C5: no failure escapes validateSAMLResponse as a thrown exception: under
\* every fault of the SAML library, a fault while constructing the strategy
\* included, the call resolves to a Failure with an errorCode and a message.
C5_NoExceptionEscapes ==
    Done("validateSAMLResponse") =>
        /\ outcome.kind = "returned"
        /\ request.lib \in {"ctorThrows", "validateThrows"}
              => /\ ~outcome.value.success
                 /\ outcome.value.errorCode # "undefined"
                 /\ outcome.value.error # "undefined"

\* C6: a callback with a missing or empty SAMLResponse yields a Failure with
\* errorCode SAML_RESPONSE_INVALID from processSAMLCallback, and a 302 to the
\* login page from the callback endpoint; neither invokes the validator and
\* neither throws.
C6_MissingResponseRejected ==
    /\ (Done("processSAMLCallback") /\ Falsy(request.arg))
          => /\ FailedWith("SAML_RESPONSE_INVALID")
             /\ ~Called("validateSAMLResponse")
    /\ (Done("POST /api/auth/saml/callback") /\ Falsy(request.arg.SAMLResponse))
          => /\ outcome.kind = "returned"
             /\ outcome.value.status = 302
             /\ outcome.value.location.path = "/login"
             /\ ~Called("validateSAMLResponse")

\* C6 witness: processSAMLCallback has answered an empty SAMLResponse in a
\* production deployment with "Missing SAML response".
C6_Witness ==
    /\ Done("processSAMLCallback")
    /\ request.arg = SamlResponseEmpty
    /\ env.NODE_ENV = "production"
    /\ outcome.kind = "returned"
    /\ outcome.value.error = "Missing SAML response"
    /\ outcome.value.errorCode = "SAML_RESPONSE_INVALID"

\* The library's answer to the validation in flight.
LibraryAnswer ==
    validatePostResponseAsync(createSAMLStrategy(env), now, request.arg, request.lib)

\* C7: when the library's validation returns no result, or a result without
\* a profile, validateSAMLResponse returns a Failure with errorCode
\* SAML_RESPONSE_INVALID and runs neither profile normalization nor role
\* mapping.
C7_MissingProfileRejected ==
    ( /\ Done("validateSAMLResponse")
      /\ request.lib # "ctorThrows"
      /\ ~LibraryAnswer.threw
      /\ \/ LibraryAnswer.result.kind = "nothing"
         \/ LibraryAnswer.result.profile = NullProfile )
        => /\ FailedWith("SAML_RESPONSE_INVALID")
           /\ ~Called("parseSAMLProfile")
           /\ ~Called("createSAMLUser")
           /\ ~Called("mapAffiliationToRoles")

\* C7 witness: the library accepted a response and returned a result whose
\* profile is null, and the validator has answered "missing profile".
C7_Witness ==
    /\ Done("validateSAMLResponse")
    /\ request.lib = "ok"
    /\ ~LibraryAnswer.threw
    /\ LibraryAnswer.result.kind = "result"
    /\ LibraryAnswer.result.profile = NullProfile
    /\ outcome.kind = "returned"
    /\ outcome.value.error = "Invalid SAML response: missing profile"

-----------------------------------------------------------------------------
(* Properties of the role mapper (specification SpecRoles).                *)

\* The affiliation list a call scans: the array, or the one string.
ScannedList(a) == IF a.kind = "array" THEN a.items ELSE <<a.str>>

\* The input takes the early return or is an empty array.
EmptyAffiliations(a) ==
    \/ a.kind = "undefined"
    \/ a.kind = "string" /\ a.str = EmptyStr
    \/ a.kind = "array" /\ a.items = <<>>

RoleKeywords == {s_faculty, s_instructor, s_staff, s_admin, s_student}

\* The affiliation holds none of the keywords, whatever its casing.
NoKeyword(s) == \A k \in RoleKeywords : ~Includes(ToLowerCase(s), k)

\* The documented table: the role of the first branch, in the fixed order,
\* whose keyword the lower-cased affiliation contains; "none" if no branch.
FirstBranch(s) ==
    LET n == ToLowerCase(s)
    IN  CASE Includes(n, s_faculty) \/ Includes(n, s_instructor) -> "instructor"
          [] ~(Includes(n, s_faculty) \/ Includes(n, s_instructor))
                /\ Includes(n, s_staff) -> "staff"
          [] ~(Includes(n, s_faculty) \/ Includes(n, s_instructor))
                /\ ~Includes(n, s_staff) /\ Includes(n, s_admin) -> "admin"
          [] ~(Includes(n, s_faculty) \/ Includes(n, s_instructor))
                /\ ~Includes(n, s_staff) /\ ~Includes(n, s_admin)
                /\ Includes(n, s_student) -> "student"
          [] OTHER -> "none"

\* The roles the affiliations of a list contribute, as a set.
Contributed(list) == { FirstBranch(list[i]) : i \in 1..Len(list) } \ {"none"}

\* The position of the first affiliation of the list contributing role r.
FirstContribution(list, r) ==
    CHOOSE i \in 1..Len(list) :
        /\ FirstBranch(list[i]) = r
        /\ \A j \in 1..(i - 1) : FirstBranch(list[j]) # r

\* C8: mapAffiliationToRoles always returns a non-empty list of roles drawn
\* from {student, instructor, admin, staff}; it returns exactly [student] for
\* undefined, the empty string and the empty list, and when no affiliation
\* string matches any branch.
C8_NonEmptyDefaultStudent ==
    Done("mapAffiliationToRoles") =>
        LET a == request.arg
            r == outcome.value
        IN  /\ outcome.kind = "returned"
            /\ Len(r) >= 1
            /\ \A i \in 1..Len(r) : r[i] \in Roles
            /\ EmptyAffiliations(a) => r = <<"student">>
            /\ (~EmptyAffiliations(a)
                    /\ \A i \in 1..Len(ScannedList(a)) : NoKeyword(ScannedList(a)[i]))
                  => r = <<"student">>

\* C8 witness: a call with two affiliations, neither matching a branch,
\* has returned [student].
C8_Witness ==
    /\ Done("mapAffiliationToRoles")
    /\ request.arg.kind = "array"
    /\ Len(request.arg.items) = 2
    /\ \A i \in 1..2 : NoKeyword(request.arg.items[i]) /\ request.arg.items[i] # EmptyStr
    /\ outcome.value = <<"student">>

\* C9: each affiliation, compared case-insensitively, contributes at most one
\* role, that of the first matching branch in the order faculty/instructor,
\* staff, admin, student; so the roles returned are exactly the roles so
\* contributed (student when there is none), ['member','faculty'] maps to
\* [instructor] and ['staff','student'] to [staff, student].
C9_FirstMatchingBranch ==
    Done("mapAffiliationToRoles") =>
        LET a == request.arg
            r == outcome.value
            got == { r[i] : i \in 1..Len(r) }
        IN  /\ (~EmptyAffiliations(a) /\ Contributed(ScannedList(a)) # {})
                  => got = Contributed(ScannedList(a))
            /\ (~EmptyAffiliations(a) /\ Contributed(ScannedList(a)) = {})
                  => got = {"student"}
            /\ a = AffArray(<<s_member, s_faculty>>) => r = <<"instructor">>
            /\ a = AffArray(<<s_staff, s_student>>) => r = <<"staff", "student">>

\* C9 witness: an affiliation in other casing that holds two keywords
\* ("student-staff" among them) has been mapped by its first branch.
C9_Witness ==
    /\ Done("mapAffiliationToRoles")
    /\ request.arg = AffArray(<<s_student_staff, s_INSTRUCTOR>>)
    /\ outcome.value = <<"staff", "instructor">>

\* C10: the returned list holds no role twice, and its roles stand in the
\* order in which the input affiliations first contributed them.
C10_NoDuplicatesInsertionOrder ==
    Done("mapAffiliationToRoles") =>
        LET a == request.arg
            r == outcome.value
        IN  /\ \A i, j \in 1..Len(r) : i # j => r[i] # r[j]
            /\ (~EmptyAffiliations(a) /\ Contributed(ScannedList(a)) # {})
                  => \A i, j \in 1..Len(r) :
                        i < j => FirstContribution(ScannedList(a), r[i])
                                    < FirstContribution(ScannedList(a), r[j])

\* C10 witness: a role contributed twice, with another role in between, has
\* been returned once, before the role contributed after it.
C10_Witness ==
    /\ Done("mapAffiliationToRoles")
    /\ request.arg = AffArray(<<s_student, s_faculty, s_student>>)
    /\ outcome.value = <<"student", "instructor">>

\* C11: the role mapping follows the documented table for
\* eduPersonAffiliation values: 'student' maps to student, 'faculty' maps to
\* instructor, and 'employee' maps to staff.
C11_DocumentedRoleTable ==
    Done("mapAffiliationToRoles") =>
        /\ request.arg = AffString(s_student) => outcome.value = <<"student">>
        /\ request.arg = AffString(s_faculty) => outcome.value = <<"instructor">>
        /\ request.arg = AffString(s_employee) => outcome.value = <<"staff">>

-----------------------------------------------------------------------------
(* Properties of profile normalization (specification SpecProfile).        *)

\* The validator accepted a release and returned its user.
Normalized ==
    /\ Done("validateSAMLResponse")
    /\ outcome.kind = "returned"
    /\ outcome.value.success

\* A string value that is present and not the empty string.
NonEmpty(v) == v \notin {Undefined, Null, EmptyStr}

\* An affiliation value that is present and holds something.
NonEmptyAffiliation(a) ==
    \/ a.kind = "string" /\ NonEmpty(a.str)
    \/ a.kind = "array" /\ Len(a.items) > 0

\* resolved is the first candidate of cands, in order, that test accepts,
\* whenever there is one.
FirstOf(cands, resolved, test(_)) ==
    \A i \in 1..Len(cands) :
        (test(cands[i]) /\ \A j \in 1..(i - 1) : ~test(cands[j]))
            => resolved = cands[i]

\* C12: profile normalization resolves each target field to the first
\* non-empty value of its ordered candidate list (email: email, OID mail,
\* mail; displayName: displayName, OID displayName, cn; firstName:
\* firstName, givenName, OID givenName; lastName: lastName, sn, OID sn;
\* subjectId: uid, OID uid, nameID; affiliation: eduPersonAffiliation, OID
\* eduPersonAffiliation), so an earlier non-empty candidate always wins over
\* a later one.
C12_FirstNonEmptyCandidate ==
    Normalized =>
        LET raw == request.arg.profile
            user == outcome.value.user
            p == user.samlProfile
        IN  /\ FirstOf(<<raw.email, raw.oid_mail, raw.mail>>, p.email, NonEmpty)
            /\ FirstOf(<<raw.displayName, raw.oid_displayName, raw.cn>>,
                       p.displayName, NonEmpty)
            /\ FirstOf(<<raw.firstName, raw.givenName, raw.oid_givenName>>,
                       p.firstName, NonEmpty)
            /\ FirstOf(<<raw.lastName, raw.sn, raw.oid_sn>>, p.lastName, NonEmpty)
            /\ FirstOf(<<raw.uid, raw.oid_uid, raw.nameID>>, user.id, NonEmpty)
            /\ FirstOf(<<raw.eduPersonAffiliation, raw.oid_eduPersonAffiliation>>,
                       p.eduPersonAffiliation, NonEmptyAffiliation)

\* An empty first candidate is passed over and the second wins over a
\* different, non-empty third.
C12_Witness ==
    /\ Normalized
    /\ LET raw == request.arg.profile
       IN  /\ raw.email = EmptyStr
           /\ NonEmpty(raw.oid_mail)
           /\ NonEmpty(raw.mail)
           /\ raw.mail # raw.oid_mail
           /\ outcome.value.user.samlProfile.email = raw.oid_mail

\* The text of e before its first '@', all of e when it holds none.
LocalPart(e) ==
    LET ats == { i \in 1..Len(e) : e[i] = "@" }
    IN  IF ats = {} THEN e
        ELSE SubSeq(e, 1, (CHOOSE i \in ats : \A k \in ats : i <= k) - 1)

\* The release of the example: uid 'jdoe', mail 'jdoe@ucsc.edu', givenName
\* 'Jane', sn 'Doe'.
JaneDoeRelease ==
    [BlankProfile EXCEPT !.uid = c_jdoe, !.mail = c_jdoe_mail,
                         !.givenName = c_Jane, !.sn = c_Doe]

\* C13: the user's display name is the resolved displayName if non-empty;
\* otherwise the non-empty ones of firstName and lastName joined by a single
\* space; otherwise the part of the resolved email before '@'; otherwise
\* nameID.  The release uid 'jdoe', mail 'jdoe@ucsc.edu', givenName 'Jane',
\* sn 'Doe' gives 'Jane Doe'.
C13_DisplayNameFallback ==
    Normalized =>
        LET user == outcome.value.user
            p == user.samlProfile
        IN  /\ IF NonEmpty(p.displayName)
                 THEN user.name = p.displayName
               ELSE IF NonEmpty(p.firstName) /\ NonEmpty(p.lastName)
                 THEN user.name = p.firstName \o <<" ">> \o p.lastName
               ELSE IF NonEmpty(p.firstName)
                 THEN user.name = p.firstName
               ELSE IF NonEmpty(p.lastName)
                 THEN user.name = p.lastName
               ELSE IF NonEmpty(p.email) /\ NonEmpty(LocalPart(p.email))
                 THEN user.name = LocalPart(p.email)
               ELSE user.name = request.arg.profile.nameID
            /\ request.arg.profile = JaneDoeRelease
                   => user.name = <<"J","a","n","e"," ","D","o","e">>

\* The example release was normalized to 'Jane Doe'.
C13_Witness ==
    /\ Normalized
    /\ request.arg.profile = JaneDoeRelease
    /\ outcome.value.user.name = <<"J","a","n","e"," ","D","o","e">>

\* The release that holds nothing but nameID 'jdoe@ucsc.edu'.
NameIDOnlyRelease == [BlankProfile EXCEPT !.nameID = c_jdoe_mail]

\* C14 as stated: a profile that has only nameID = 'jdoe@ucsc.edu' is
\* normalized to subjectId 'jdoe@ucsc.edu', display name 'jdoe' and roles
\* {student}.
C14_NameIDOnlyLocalPart ==
    (Normalized /\ request.arg.profile = NameIDOnlyRelease) =>
        /\ outcome.value.user.id = c_jdoe_mail
        /\ outcome.value.user.name = c_jdoe
        /\ outcome.value.user.roles = <<"student">>

\* C14, amended: a profile that has only nameID = 'jdoe@ucsc.edu' is
\* normalized to subjectId 'jdoe@ucsc.edu', roles {student}, and the display
\* name 'jdoe@ucsc.edu': no email resolves, so the fallback chain ends at
\* nameID, which is taken whole.
C14_NameIDOnly ==
    (Normalized /\ request.arg.profile = NameIDOnlyRelease) =>
        /\ outcome.value.user.samlProfile.email = EmptyStr
        /\ outcome.value.user.id = c_jdoe_mail
        /\ outcome.value.user.name = c_jdoe_mail
        /\ outcome.value.user.roles = <<"student">>

C14_Witness ==
    /\ Normalized
    /\ request.arg.profile = NameIDOnlyRelease
    /\ outcome.value.user.name = request.arg.profile.nameID

-----------------------------------------------------------------------------
(* Properties of the login flow (specification SpecFlow).                  *)

\* The value a query parameter written as v carries.
QueryValue(v) == decodeURIComponent(v).value

\* C15: generateAuthUrl(r) for a non-empty relay state r produces a URL
\* that targets the configured entryPoint and carries a RelayState query
\* parameter equal to r, unmodified and uninterpreted.
C15_RelayStateCarried ==
    ( /\ Done("generateAuthUrl")
      /\ outcome.kind = "returned"
      /\ Truthy(request.arg) )
    => /\ outcome.value.origin = getSAMLConfig(env).entryPoint
       /\ outcome.value.RelayState # Undefined
       /\ decodeURIComponent(outcome.value.RelayState).ok
       /\ QueryValue(outcome.value.RelayState) = request.arg

\* A relay state with reserved characters went into the URL.
C15_Witness ==
    /\ Done("generateAuthUrl")
    /\ outcome.kind = "returned"
    /\ request.arg = path_encoded_space
    /\ outcome.value.RelayState = <<"%","2","F","a","%","2","5","2","0","b">>

\* The callback page has finished a login the server reported as successful.
LoggedIn == browser.pc = "landed" /\ browser.search.success = "true"

\* C16: after a successful validation the browser ends up at the post-login
\* path carried in RelayState: the path the client finally navigates to
\* equals the RelayState value posted back by the IdP, which equals the
\* return path given at login initiation, and the redirect carries a success
\* indicator and the encoded identity payload.
C16_LandsAtRelayState ==
    /\ LoggedIn =>
          /\ browser.at = Or2(browser.relay, path_root)
          /\ browser.requestId # NoRequestId
                => browser.relay = Or2(browser.returnPath, path_root)
    /\ ( /\ Done("POST /api/auth/saml/callback")
         /\ outcome.kind = "returned"
         /\ outcome.value.location.path = "/auth/saml/callback" )
       => /\ outcome.value.location.success = "true"
          /\ outcome.value.location.user # <<>>
          /\ DOMAIN outcome.value.location.user
                 \subseteq {"id", "email", "name", "roles", "sessionIndex"}

\* The error codes the endpoints write themselves.
CoarseErrorCodes ==
    {"saml_init_failed", "missing_saml_response", "auth_failed", "server_error"}

\* C17: on any authentication failure the URL the browser is redirected to
\* carries only a coarse error code from a fixed set; no library error
\* message text appears in a redirect URL.
C17_CoarseErrorCodeOnly ==
    ( /\ Done("POST /api/auth/saml/callback") \/ Done("GET /api/auth/saml/login")
      /\ outcome.kind = "returned"
      /\ outcome.value.location.path = "/login" )
    => outcome.value.location.error \in CoarseErrorCodes

\* C18: the login-initiation endpoint always answers with a 302: to the IdP
\* URL of generateAuthUrl, with the relay state taken from the optional
\* return-path parameter and '/' when it is absent, on success, and to the
\* error page with the code saml_init_failed on any failure; no exception
\* escapes it.
C18_LoginAlwaysRedirects ==
    Done("GET /api/auth/saml/login") =>
        /\ outcome.kind = "returned"
        /\ outcome.value.status = 302
        /\ IF request.lib = "ok"
           THEN /\ outcome.value.location.origin = getSAMLConfig(env).entryPoint
                /\ outcome.value.location.SAMLRequest.issuer = getSAMLConfig(env).issuer
                /\ QueryValue(outcome.value.location.RelayState)
                       = Or2(request.arg.redirect, path_root)
           ELSE /\ outcome.value.location.path = "/login"
                /\ outcome.value.location.error = "saml_init_failed"

\* The SAML constructor threw and the endpoint answered with the error page.
C18_Witness ==
    /\ Done("GET /api/auth/saml/login")
    /\ request.lib = "ctorThrows"
    /\ outcome.kind = "returned"
    /\ outcome.value.status = 302
    /\ outcome.value.location.error = "saml_init_failed"

\* The form as it would be had it answered no request.
Unsolicited(form) == [form EXCEPT !.SAMLResponse.inResponseTo = NoRequestId]

\* The response of the form passes every check of the validator.
PassesValidation(r) ==
    /\ WellFormed(r)
    /\ SignatureAccepted(r)
    /\ InTimeWindow(r)
    /\ AudienceMatches(r)
    /\ r.profile # NullProfile

\* C19: response validation never checks InResponseTo against an outstanding
\* request: the outcome for a response does not depend on whether any
\* AuthnRequest was issued before it, so an unsolicited response and a second
\* submission of an already accepted response are accepted exactly like the
\* first, and the server remembers no request identifier.
C19_NoRequestCorrelation ==
    Done("POST /api/auth/saml/callback") =>
        /\ outcome = PostCallback(env, now, Unsolicited(request.arg), request.lib)
        /\ (request.lib = "ok" /\ PassesValidation(request.arg.SAMLResponse))
               => outcome.value.location.path = "/auth/saml/callback"
        /\ browser.resubmitted => outcome = browser.first
        /\ createSAMLStrategy(env).requestIds = {}

\* A response that names a request never issued is accepted, and accepted
\* again when it is submitted a second time.
C19_Witness ==
    /\ Done("POST /api/auth/saml/callback")
    /\ request.arg.SAMLResponse.inResponseTo \in RequestIds \ authnRequests
    /\ browser.resubmitted
    /\ browser.first.value.location.path = "/auth/saml/callback"
    /\ outcome.value.location.path = "/auth/saml/callback"

-----------------------------------------------------------------------------
(* Properties of concurrent validation (specification SpecConcurrent).     *)

-----------------------------------------------------------------------------
(* Properties of the configuration (specifications Spec and SpecConfig).   *)

\* A request has been served under the current environment.
Served == outcome.kind # "none"

\* Enforcement is on and there is no certificate.
EnforcedWithoutCert(e) ==
    /\ Enforced(createSAMLStrategy(e))
    /\ createSAMLStrategy(e).idpCert = EmptyStr

\* C21: a configuration with signature enforcement on and an empty IdP
\* certificate never serves a request (it is a fatal error at startup), and
\* an empty certificate outside production comes with both enforcement
\* flags false.
C21_NoCertNeverServes ==
    /\ Served => ~EnforcedWithoutCert(env)
    /\ ( /\ getSAMLConfig(env).cert = EmptyStr
         /\ env.NODE_ENV # "production" )
          => ( /\ ~getSAMLConfig(env).wantAssertionsSigned
               /\ ~getSAMLConfig(env).wantAuthnResponseSigned )

\* Call i has returned from `op`.
Finished(i, op) == invocations[i].pc = "done" /\ invocations[i].op = op

\* C22: getSAMLConfig returns the same configuration on every call for the
\* life of the process, whatever happens to the environment after start.
C22_SameConfigEveryCall ==
    \A i, j \in CallIds :
        (Finished(i, "getSAMLConfig") /\ Finished(j, "getSAMLConfig"))
            => invocations[i].result = invocations[j].result

\* The operations that construct a SAML instance.
StrategyUsers == {"generateAuthUrl", "validateSAMLResponse", "generateMetadata"}

\* Call i constructed its SAML instance.
Constructed(i) ==
    /\ invocations[i].pc = "done"
    /\ invocations[i].op \in StrategyUsers
    /\ invocations[i].lib = "ok"

\* The armored forms of the raw certificate.
ArmoredForms == {cert_pem, cert_pem_crlf, cert_pem_wrapped}

\* C23: certificate normalization yields one canonical value: normalizing
\* is idempotent, an armored certificate and its raw base64 form normalize
\* to the same string, and the request builder, the response validator and
\* the metadata generator all hand that normalized value to the library.
C23_OneCanonicalCert ==
    /\ NormalizeCert(NormalizeCert(env.SAML_IDP_CERT))
          = NormalizeCert(env.SAML_IDP_CERT)
    /\ env.SAML_IDP_CERT \in ArmoredForms
          => NormalizeCert(env.SAML_IDP_CERT) = NormalizeCert(cert_raw)
    /\ \A i \in CallIds :
          Constructed(i) =>
              /\ NormalizeCert(invocations[i].saml.idpCert)
                    = invocations[i].saml.idpCert
              /\ \A j \in CallIds :
                    ( /\ Constructed(j)
                      /\ invocations[i].saml.idpCert # EmptyStr
                      /\ invocations[j].saml.idpCert # EmptyStr )
                        => invocations[i].saml.idpCert
                              = invocations[j].saml.idpCert

\* The builder and the validator have both constructed their instance,
\* while an armored certificate is configured.
C23_Witness ==
    /\ env.SAML_IDP_CERT \in ArmoredForms
    /\ \E i, j \in CallIds :
          /\ Constructed(i) /\ invocations[i].op = "generateAuthUrl"
          /\ Constructed(j) /\ invocations[j].op = "validateSAMLResponse"
          /\ invocations[i].saml.idpCert = cert_raw
          /\ invocations[j].saml.idpCert = cert_raw

\* The logging functions of the console.
LogCalls == {"console.log", "console.info", "console.warn", "console.error"}

\* C24: every validation made with signature enforcement off emits a log
\* event (about the skipped signature verification) before its result is
\* returned.
C24_SkipIsLogged ==
    ( /\ Done("validateSAMLResponse")
      /\ outcome.kind = "returned"
      /\ ~Enforced(createSAMLStrategy(env)) )
        => \E f \in LogCalls : Called(f)

-----------------------------------------------------------------------------
(* Properties of the route guard (specification SpecGuard).                *)

\* The visitor of the guard call in flight is unauthenticated, or holds
\* none of the required roles.
GuardDenies ==
    LET a == request.arg.auth
        r == request.arg.roles
    IN  \/ ~a.isAuthenticated
        \/ /\ r # Undefined
           /\ Len(r) > 0
           /\ ~HasRequiredRole(r, IF a.user = <<>> THEN <<>> ELSE a.user[1].roles)

\* C25: the guard throws a redirect to /login, with returnUrl the current
\* href, for every unauthenticated or unauthorized visitor, and returns
\* normally only for an authenticated user who satisfies the roles.
C25_GuardRedirectsToLogin ==
    Done("protectedBeforeLoad") =>
        /\ GuardDenies =>
              /\ outcome.kind = "threw"
              /\ outcome.value.to = "/login"
              /\ outcome.value.search.returnUrl = request.arg.href
        /\ outcome.kind = "returned" => ~GuardDenies

-----------------------------------------------------------------------------
(* Properties of the AuthProvider (specification SpecAuth).                *)

\* user and session are null and the stored session and user are removed.
Cleared(a) ==
    /\ a.user = <<>>
    /\ a.session = <<>>
    /\ a.storage.session = <<>>
    /\ a.storage.user = <<>>

\* The code of the AuthError in error, if there is one.
ErrorCode(a) == IF a.error = <<>> THEN "none" ELSE a.error[1].code.v

\* The provider has just mounted: no effect has run yet.
Mounting == authProvider = MountState(authProvider.storage)

\* localStorage holds a session and a user.
HasStored(a) == a.storage.session # <<>> /\ a.storage.user # <<>>

\* C26: when a session is held and no user-activity event has occurred for
\* more than 30 minutes, the next periodic session check clears user,
\* session and the stored session data and sets an AuthError with code
\* SESSION_EXPIRED.
C26_IdleTimeout ==
    [][ ( /\ CheckSessionTimer
          /\ authProvider.session # <<>>
          /\ now - authProvider.quietSince > MAX_IDLE_TIME )
            => ( /\ Cleared(authProvider')
                 /\ ErrorCode(authProvider') = "SESSION_EXPIRED" ) ]_vars

\* A refresh request with this refresh token is in flight.
RefreshSent(a, token) == \E p \in a.pending : p.refreshToken = token

\* The restoration on mount finds a stored session that is still valid,
\* with a refresh token and less than 5 minutes until expiresAt.
MountFindsNearExpiry ==
    /\ Mounting
    /\ HasStored(authProvider)
    /\ ~checkIdleTimeout(authProvider, now)
    /\ isSessionValid(authProvider.storage.session[1], now)
    /\ needsRefresh(authProvider.storage.session[1], now)
    /\ Truthy(authProvider.storage.session[1].refreshToken)

\* A periodic check finds such a session in the state.
CheckFindsNearExpiry ==
    /\ authProvider.session # <<>>
    /\ ~authProvider.isLoading
    /\ ~checkIdleTimeout(authProvider, now)
    /\ isSessionValid(authProvider.session[1], now)
    /\ needsRefresh(authProvider.session[1], now)
    /\ Truthy(authProvider.session[1].refreshToken)

\* The refresh endpoint answers a request in flight, with `kinds`.
RefreshAnswered(kinds) ==
    \E p \in authProvider.pending, r \in RefreshResponses(now) :
        /\ r.kind \in kinds
        /\ authProvider' = Observed(authProvider,
                                    FinishRefresh(authProvider, p, r, now),
                                    now, "refresh")

\* C27: whenever the restoration on mount or a periodic check finds a
\* still-valid session with less than 5 minutes until expiresAt,
\* refreshSession is invoked with that session's refresh token; and when
\* the refresh endpoint answers OK, token, refreshToken and expiresAt are
\* replaced in state and storage and the user stays authenticated.
C27_AutoRefresh ==
    [][ /\ (RestoreEffect /\ MountFindsNearExpiry)
              => RefreshSent(authProvider',
                             authProvider.storage.session[1].refreshToken)
        /\ (CheckSessionTimer /\ CheckFindsNearExpiry)
              => RefreshSent(authProvider', authProvider.session[1].refreshToken)
        /\ (RefreshAnswered({"ok"}) /\ isAuthenticated(authProvider))
              => /\ isAuthenticated(authProvider')
                 /\ authProvider'.session[1].token = tok_1
                 /\ authProvider'.session[1].refreshToken = ref_1
                 /\ authProvider'.session[1].expiresAt = now + 60
                 /\ authProvider'.storage.session = authProvider'.session ]_vars

\* What C28 requires of the provider when refreshSession has failed.
AfterFailedRefresh(a) ==
    /\ Cleared(a)
    /\ a.storage.lastActivity = <<>>
    /\ a.error # <<>>
    /\ isAuthError(a.error[1])
    /\ ~a.isLoading

\* C28: if refreshSession fails for any reason (no refresh token, non-OK
\* response, network error), then when it finishes user and session are
\* null, the three storage keys are removed, error holds an AuthError,
\* isLoading is false, and the error is rethrown to the caller.
C28_RefreshFailureClears ==
    [][ /\ ( /\ request'.op = "refreshSession"
             /\ outcome.kind = "none"
             /\ outcome'.kind = "threw" )
              => ( /\ AfterFailedRefresh(authProvider')
                   /\ outcome'.value = authProvider'.error[1] )
        /\ RefreshAnswered({"notOk", "networkError"})
              => AfterFailedRefresh(authProvider') ]_vars

\* A refreshSession that a component awaited has thrown after its fetch,
\* and the provider had a user until then.
C28_Witness ==
    /\ Done("refreshSession")
    /\ outcome.kind = "threw"
    /\ Called("fetch")
    /\ ErrorCode(authProvider) = "REFRESH_TOKEN_INVALID"
    /\ authProvider.user = <<>>
    /\ now > 0

\* C29: a stored session whose expiresAt is not in the future is never
\* restored: after the restoration on mount isAuthenticated is false, the
\* stored data is cleared and error has code SESSION_EXPIRED.
C29_ExpiredNotRestored ==
    [][ ( /\ RestoreEffect
          /\ Mounting
          /\ HasStored(authProvider)
          /\ ~isSessionValid(authProvider.storage.session[1], now) )
            => ( /\ ~isAuthenticated(authProvider')
                 /\ authProvider'.storage = EmptyStorage
                 /\ ErrorCode(authProvider') = "SESSION_EXPIRED" ) ]_vars

\* C30: after logout, user and session are null and the stored session and
\* user are absent until the next login or updateSession, whatever
\* asynchronous operation started before the logout completes after it.
C30_LogoutStaysCleared ==
    authProvider.loggedOut => Cleared(authProvider)

-----------------------------------------------------------------------------
(* Properties of the configuration flags (specification SpecConfig).        *)

\* C37: the two signature-enforcement flags that getSAMLConfig returns are
\* equal to each other and are true exactly when NODE_ENV is 'production'
\* at the time of the call, whatever the other environment variables hold.
C37_FlagsFollowNodeEnv ==
    [][ \A i \in CallIds :
          (invocations[i].pc = "idle" /\ invocations'[i].op = "getSAMLConfig") =>
              LET config == invocations'[i].result.value
              IN  /\ config.wantAssertionsSigned = config.wantAuthnResponseSigned
                  /\ config.wantAssertionsSigned = (env.NODE_ENV = "production") ]_vars

\* getSAMLConfig has returned enforcing flags in production with a
\* certificate configured, and relaxed flags for another call.
C37_Witness ==
    \E i, j \in CallIds :
        /\ Finished(i, "getSAMLConfig")
        /\ Finished(j, "getSAMLConfig")
        /\ invocations[i].result.value.wantAssertionsSigned
        /\ invocations[i].result.value.cert # EmptyStr
        /\ ~invocations[j].result.value.wantAuthnResponseSigned

-----------------------------------------------------------------------------
(* Properties of the user's email (specification SpecProfile).              *)

\* The text a template literal writes for v.
AsText(v) ==
    IF v = Undefined THEN <<"u","n","d","e","f","i","n","e","d">>
    ELSE IF v = Null THEN <<"n","u","l","l">>
    ELSE v

\* The release resolves no email: none of its email candidates is non-empty.
NoEmailReleased(raw) ==
    ~NonEmpty(raw.email) /\ ~NonEmpty(raw.oid_mail) /\ ~NonEmpty(raw.mail)

\* The release gives no displayName, first name or last name.
NoNamesReleased(raw) ==
    \A v \in { raw.displayName, raw.oid_displayName, raw.cn,
                raw.firstName, raw.givenName, raw.oid_givenName,
                raw.lastName, raw.sn, raw.oid_sn } : ~NonEmpty(v)

\* C38: on Success the user's email is the first non-empty email candidate
\* of the profile, and when there is none it is the text of nameID followed
\* by '@ucsc.edu', also when nameID already holds an '@'; the display-name
\* fallback uses only the resolved email: with no email resolved the
\* fallback ends at nameID, never at the local part of the synthesized
\* email.
C38_EmailResolvedOrSynthesized ==
    Normalized =>
        LET raw == request.arg.profile
            user == outcome.value.user
        IN  /\ FirstOf(<<raw.email, raw.oid_mail, raw.mail>>, user.email, NonEmpty)
            /\ NoEmailReleased(raw) =>
                   /\ user.email = AsText(raw.nameID) \o <<"@","u","c","s","c",".","e","d","u">>
                   /\ user.samlProfile.email = EmptyStr
                   /\ NoNamesReleased(raw) => user.name = raw.nameID

\* A release with nothing but a nameID that holds an '@' was accepted: the
\* email is synthesized from the whole nameID.
C38_Witness ==
    /\ Normalized
    /\ NoEmailReleased(request.arg.profile)
    /\ NoNamesReleased(request.arg.profile)
    /\ \E i \in DOMAIN request.arg.profile.nameID :
          request.arg.profile.nameID[i] = "@"
    /\ Len(outcome.value.user.email) = Len(request.arg.profile.nameID) + 9
    /\ outcome.value.user.name = request.arg.profile.nameID

-----------------------------------------------------------------------------
(* Properties of sessions without a refresh token (specification SpecAuth). *)

\* A periodic check finds a held session with an empty refresh token that
\* is still valid and has less than 5 minutes until expiresAt.
CheckFindsTokenlessNearExpiry ==
    /\ authProvider.session # <<>>
    /\ ~authProvider.isLoading
    /\ ~checkIdleTimeout(authProvider, now)
    /\ isSessionValid(authProvider.session[1], now)
    /\ needsRefresh(authProvider.session[1], now)
    /\ authProvider.session[1].refreshToken = EmptyStr

\* C35: a session whose refreshToken is empty, like every session of the
\* SAML callback page, is never refreshed: no refresh request is ever sent
\* for an empty refresh token, and the first periodic check that finds such
\* a session within 5 minutes of its expiry ends with user, session and
\* storage cleared and an error of code REFRESH_TOKEN_INVALID, before
\* expiresAt is reached.
C35_TokenlessSessionEndsEarly ==
    [][ /\ \A p \in authProvider'.pending : p.refreshToken # EmptyStr
        /\ (CheckSessionTimer /\ CheckFindsTokenlessNearExpiry)
              => /\ Cleared(authProvider')
                 /\ authProvider'.storage = EmptyStorage
                 /\ ErrorCode(authProvider') = "REFRESH_TOKEN_INVALID"
                 /\ ~authProvider'.isLoading
                 /\ now < authProvider.session[1].expiresAt ]_vars

\* A periodic check at minute 28 has just ended a session for want of a
\* refresh token.
C35_Witness ==
    /\ authProvider.event = "check"
    /\ ErrorCode(authProvider) = "REFRESH_TOKEN_INVALID"
    /\ Cleared(authProvider)
    /\ authProvider.pending = {}
    /\ now = MAX_IDLE_TIME - 2

-----------------------------------------------------------------------------
(* Properties of keyboard navigation (specification SpecKeys).              *)

\* The last step was a key event that handleKeyDown took as `keys`.
KeyEvent(keys) ==
    /\ keyboardNav'.tick # keyboardNav.tick
    /\ keyboardNav'.key \in keys
    /\ keyboardNav'.handled

InRange(k, i) == i >= 0 /\ i <= k.itemCount - 1

\* C31: with itemCount >= 1, after every ArrowUp, ArrowDown, ArrowLeft,
\* ArrowRight, Home or End event that handleKeyDown handles, focusedIndex
\* lies in 0..itemCount-1; with circular navigation a move past the last
\* item lands on 0 and a move before the first on itemCount-1, without it
\* the index stays at the boundary; and Enter or Space invokes onSelect
\* only while focusedIndex is in 0..itemCount-1, with that index.
C31_FocusStaysInRange ==
    [][ LET k == keyboardNav
            last == k.itemCount - 1
        IN  /\ ( /\ k.itemCount >= 1
                 /\ KeyEvent({"ArrowUp", "ArrowDown", "ArrowLeft", "ArrowRight",
                              "Home", "End"}) )
                  => /\ InRange(k, keyboardNav'.focusedIndex)
                     /\ (KeyEvent({"ArrowDown", "ArrowRight"}) /\ k.focusedIndex = last)
                           => keyboardNav'.focusedIndex = IF k.circular THEN 0 ELSE last
                     /\ (KeyEvent({"ArrowUp", "ArrowLeft"}) /\ k.focusedIndex = 0)
                           => keyboardNav'.focusedIndex = IF k.circular THEN last ELSE 0
                     /\ KeyEvent({"Home"}) => keyboardNav'.focusedIndex = 0
                     /\ KeyEvent({"End"}) => keyboardNav'.focusedIndex = last
            /\ keyboardNav'.selected # <<>>
                  => /\ keyboardNav'.key \in {"Enter", " "}
                     /\ InRange(k, k.focusedIndex)
                     /\ keyboardNav'.selected = <<k.focusedIndex>> ]_vars

\* In a circular list of three items, ArrowUp on the first item has moved
\* the focus to the last.
C31_Witness ==
    /\ keyboardNav.key = "ArrowUp"
    /\ keyboardNav.handled
    /\ keyboardNav.circular
    /\ keyboardNav.itemCount = MaxItems
    /\ keyboardNav.focusedIndex = MaxItems - 1

-----------------------------------------------------------------------------
(* Properties of the callback page (specification SpecPage).                *)

\* The callback page has handed a session to updateSession.
PageSetSession == browser.pc = "landed" /\ browser.session # NoSession

\* C32: the SAML callback page calls updateSession with a user (id, email,
\* name, roles) only if validateSAMLResponse returned Success for exactly
\* that user in the same login attempt; no navigation to
\* /auth/saml/callback with query parameters of the visitor's choosing
\* establishes a session or chooses its roles.
C32_SessionOnlyForValidatedUser ==
    PageSetSession =>
        /\ browser.validated # <<>>
        /\ browser.session.user = browser.validated[1]

-----------------------------------------------------------------------------
(* Properties of the mounted callback pages (specification SpecMount).      *)

\* C33: each mounted callback page processes its callback at most once:
\* however often its effect runs again, updateSession on the SAML callback
\* page and handleLoginCallback on the OIDC callback page are each invoked
\* at most one time per mount.
C33_ProcessedOncePerMount ==
    callbackPage.calls <= 1

\* The effect of a page ran again after the run that made the call, on a
\* page that was mounted a second time and processed its callback anew.
C33_Witness ==
    /\ callbackPage.route \in {"saml", "oidc"}
    /\ callbackPage.calls = 1
    /\ callbackPage.runs = MaxRuns
    /\ callbackPage.processedRef
    /\ callbackPage.mounts = MaxMounts
    /\ callbackPage.total = MaxMounts

-----------------------------------------------------------------------------
(* Properties of the provider's user/session pairing (specification
   SpecAuth). *)

\* C34: in every reachable state of the AuthProvider, user and session are
\* both null or both non-null with session.user equal to user, and
\* isAuthenticated is true exactly when both are non-null.
C34_UserAndSessionTogether ==
    /\ (authProvider.user = <<>>) <=> (authProvider.session = <<>>)
    /\ authProvider.session # <<>>
          => authProvider.session[1].user = authProvider.user[1]
    /\ isAuthenticated(authProvider)
          <=> (authProvider.user # <<>> /\ authProvider.session # <<>>)

-----------------------------------------------------------------------------
(* Properties of isLoading (specification SpecLoading). *)

\* isLoading of the provider the application has mounted; nothing is loading
\* while the browser is away at the identity provider.
IsLoading ==
    IF HookMounted THEN hookAuth.isLoading
    ELSE IF OidcMounted THEN OidcLive /\ oidcAuth.isLoading
    ELSE authProvider.isLoading

\* C36: isLoading never stays true forever: whenever isLoading is true (after
\* mount, login, logout, refreshSession, a session restore or check, or the
\* handling of a login callback), it is false at some later moment, whether
\* the operation succeeds or fails, provided every awaited call settles.
C36_LoadingEventuallyEnds == IsLoading ~> ~IsLoading

\* The production refresh of the hook provider has run and left its error,
\* and nothing is loading.
C36_Witness ==
    /\ HookMounted
    /\ ~hookAuth.useMock
    /\ ~hookAuth.checkDue
    /\ hookAuth.error = buildError("UNKNOWN_ERROR")
    /\ ~IsLoading

\* The hook provider and the OIDC provider keep user and session together.
UserAndSessionTogether(p) ==
    /\ (p.user = <<>>) <=> (p.session = <<>>)
    /\ p.session # <<>> => p.session[1].user = p.user[1]
    /\ p.isAuthenticated <=> (p.user # <<>> /\ p.session # <<>>)

HookAndOidcPaired ==
    /\ UserAndSessionTogether(hookAuth)
    /\ UserAndSessionTogether(oidcAuth)

=============================================================================
